---------------------------- MODULE Spec2Model ----------------------------
(***************************************************************************)
(* A model of the VolcEngine realtime dialogue client of OpenAvatarChat:   *)
(*   - the frame codec of protocol_parser.py (generate_header,             *)
(*     parse_response), on frames that are sequences of bytes 0..255;      *)
(*   - the event dispatcher of realtime_handler_volcengine.py              *)
(*     (_parse_and_handle_response and the handlers it calls);             *)
(*   - the two connection lifecycles of HandlerVolcEngineRealtime:         *)
(*     _connect_and_process (the processing thread, "flow A") and          *)
(*     _send_temp_file_and_wait_response (the audio-file turn, "flow B");  *)
(*   - DialogSession of audio_processor.py (microphone input, stop).       *)
(*   - the message builders of volcengine_client.py and ProtocolHandler    *)
(*     (protocol_handler.py), and the keepalive of SessionManager          *)
(*     (session_manager.py).                                               *)
(* Strings are sequences of character codes.  gzip and json are library    *)
(* code: they are modelled by a small reversible encoding that can fail.   *)
(***************************************************************************)
EXTENDS Integers, Sequences, FiniteSets, TLC

VARIABLES
    \* ---- codec harness (SpecCodec) ----
    hdrIn,          \* arguments of the last generate_header call
    hdrBytes,       \* what generate_header returned
    hdrOut,         \* the header fields parse_response computes from hdrBytes
    parseIn,        \* a buffer handed to parse_response
    parseOut,       \* what parse_response did with parseIn
    codecPc,        \* position of the codec harness
    \* ---- HandlerVolcEngineRealtime and VolcEngineRealtimeContext ----
    current_dialog_id,      \* handler.current_dialog_id ("" is None)
    is_connected,           \* context.is_connected
    is_session_active,      \* context.is_session_active
    stop_event,             \* context.stop_event.is_set()
    audio_input_queue,      \* context.audio_input_queue
    audio_output_queue,     \* context.audio_output_queue
    text_output_queue,      \* context.text_output_queue
    chat_buffer,            \* context.chat_buffer
    chat_session_active,    \* context.chat_session_active
    evlog,                  \* events handed to _parse_and_handle_response so far
    \* ---- flow A: _connect_and_process on context.client ----
    clientKind,     \* how context.client was built
    pcA,            \* position of _connect_and_process
    pcAudio,        \* position of the _handle_audio_input task
    pcResp,         \* position of the _handle_server_responses task
    audioChunk,     \* the chunk the audio task is sending
    wsA,            \* context.client.ws: "none", "open", "broken"
    wireA,          \* frames written to context.client.ws, in order
    inboxA,         \* frames the server sent on it, not yet received
    \* ---- flow B: _send_temp_file_and_wait_response on file_client ----
    pcB,            \* position of _send_temp_file_and_wait_response
    pcSilence,      \* position of the send_silence_audio task
    pcRespB,        \* position of the handle_responses task
    session_finished_event,
    fileLeft,       \* chunks of the wav file not yet read (-1: unreadable)
    wsB,            \* file_client.ws
    wireB,          \* frames written to file_client.ws, in order
    inboxB,         \* frames the server sent on it, not yet received
    runsB,          \* calls of _send_temp_file_and_wait_response so far
    received_responses, \* events of the responses the turn collected (-1: none)
    \* ---- environment budgets ----
    srvSent,        \* frames the server has sent so far
    chunksPut,      \* chunks handle() has put on audio_input_queue so far
    \* ---- DialogSession (SpecDialog) ----
    dsPc,           \* position of the caller of DialogSession
    dsRunning,      \* session.is_running
    dsRecording,    \* audio_manager.is_recording
    dsTasks,        \* send tasks created by the microphone callback
    dsWs,           \* client.ws of the DialogSession client
    dsWire,         \* frames written to it, in order
    dsMic,          \* chunks the microphone has delivered so far
    \* ---- message builders and keepalive (SpecHandler) ----
    errIn,          \* the error a SERVER_ERROR_RESPONSE frame was built from
    phCfg,          \* ProtocolHandler.use_compression, .use_protobuf
    bldPc,          \* what SpecHandler runs: builders, keepalive test, manager
    kaOut,          \* an is_keepalive_needed call: arguments and result
    smRegistered,   \* session_id in SessionManager.protocol_handlers / sessions
    smCreatedAt,    \* when create_session was called for session_id (-1: never)
    bldCall,        \* the builder call made last, with its arguments
    bldOut,         \* what that call returned or raised
    audioCalls,     \* audio messages built for the session so far
    last_activity,  \* SessionManager.last_activity[session_id] (-1: no entry)
    now,            \* time.time()
    smSent,         \* frames SessionManager.send_keepalive has sent
    smRet,          \* what send_keepalive returned last
    \* ---- the two consumers of the output queues (SpecOutput) ----
    pcOut,          \* position of the _output_loop thread
    pcDrain,        \* position of _process_received_responses in handle()
    outTaken,       \* who took an item from which output queue, in order
    \* ---- SessionManager (SpecManager) ----
    mgr,            \* the six per-session maps of one SessionManager
    mgrCalls,       \* the calls made on it, with what each returned and sent
    \* ---- manual recording handler (SpecRecording) ----
    rec,            \* the ManualRecordingContext
    recOut,         \* the ChatData handle() has yielded, in order
    recIn,          \* the input of the last handle() call, n: calls so far
    recStartTs,     \* the timestamp the last 'start' input carried
    \* ---- RtcStreamV2 (SpecRtc) ----
    rtc             \* the factory stream, the streams copy() made, the calls

handlerVars == <<errIn, phCfg, bldPc, kaOut, smRegistered, smCreatedAt, bldCall,
                 bldOut, audioCalls, last_activity, now, smSent, smRet>>
codecVars   == <<hdrIn, hdrBytes, hdrOut, parseIn, parseOut, codecPc, handlerVars>>
ctxVars     == <<current_dialog_id, is_connected, is_session_active, stop_event,
                 audio_input_queue, audio_output_queue, text_output_queue,
                 chat_buffer, chat_session_active, evlog>>
flowAVars   == <<clientKind, pcA, pcAudio, pcResp, audioChunk, wsA, wireA, inboxA>>
flowBVars   == <<pcB, pcSilence, pcRespB, session_finished_event, fileLeft,
                 wsB, wireB, inboxB, runsB, received_responses>>
outVars     == <<pcOut, pcDrain, outTaken>>
mgrVars     == <<mgr, mgrCalls>>
recVars     == <<rec, recOut, recIn, recStartTs>>
rtcVars     == <<rtc>>
extVars     == <<outVars, mgrVars, recVars, rtcVars>>
envVars     == <<srvSent, chunksPut, extVars>>
dialogVars  == <<dsPc, dsRunning, dsRecording, dsTasks, dsWs, dsWire, dsMic>>
vars        == <<codecVars, ctxVars, flowAVars, flowBVars, envVars, dialogVars>>

---------------------------------------------------------------------------
(* Bounds of the model *)

MaxExtWords     == 2    \* extension headers of up to this many 4-byte words
MaxEvents       == 4    \* events dispatched in one dispatcher run
MaxServerFrames == 4    \* frames the server sends in one handler run
MaxChunks       == 2    \* audio chunks fed to a flow
MaxRunsB        == 2    \* audio-file turns on one context
MaxMic          == 2    \* microphone callbacks in one DialogSession run

---------------------------------------------------------------------------
(* Python helpers *)

Min(a, b) == IF a < b THEN a ELSE b
Max(a, b) == IF a > b THEN a ELSE b

\* s[a:b] of Python on a bytes object (0-based, negative indices from the end)
PySlice(s, a, b) ==
    LET n  == Len(s)
        lo == IF a < 0 THEN Max(0, n + a) ELSE Min(a, n)
        hi == IF b < 0 THEN Max(0, n + b) ELSE Min(b, n)
    IN  IF hi <= lo THEN <<>> ELSE SubSeq(s, lo + 1, hi)

\* s[a:] of Python
PyFrom(s, a) == PySlice(s, a, Len(s))

\* a | b of Python on non-negative integers
RECURSIVE BitOr(_, _)
BitOr(a, b) ==
    IF a = 0 THEN b
    ELSE IF b = 0 THEN a
    ELSE (IF a % 2 = 1 \/ b % 2 = 1 THEN 1 ELSE 0) + 2 * BitOr(a \div 2, b \div 2)

\* a & b of Python on non-negative integers
RECURSIVE BitAnd(_, _)
BitAnd(a, b) ==
    IF a = 0 \/ b = 0 THEN 0
    ELSE (IF a % 2 = 1 /\ b % 2 = 1 THEN 1 ELSE 0) + 2 * BitAnd(a \div 2, b \div 2)

\* int.from_bytes(bs, "big", signed=False); empty bytes give 0
RECURSIVE FromBytes(_)
FromBytes(bs) ==
    IF bs = <<>> THEN 0
    ELSE FromBytes(SubSeq(bs, 1, Len(bs) - 1)) * 256 + bs[Len(bs)]

\* int(n).to_bytes(4, "big") for 0 <= n < 2^16
ToBytes4(n) == <<0, 0, n \div 256, n % 256>>


---------------------------------------------------------------------------
(* protocol_parser.py: constants *)

PROTOCOL_VERSION       == 1
CLIENT_FULL_REQUEST    == 1
CLIENT_AUDIO_ONLY_REQUEST == 2
SERVER_FULL_RESPONSE   == 9
SERVER_ACK             == 11
SERVER_ERROR_RESPONSE  == 15
NEG_SEQUENCE           == 2
MSG_WITH_EVENT         == 4
NO_SERIALIZATION       == 0
JSON                   == 1
THRIFT                 == 3
GZIP                   == 1
NO_COMPRESSION         == 0
\* 2^HEADER_BITS - 1: the largest header_size the first byte can hold
MaxHeaderSize          == 15

---------------------------------------------------------------------------
(* protocol_parser.py: generate_header *)

\* bytearray.append(x) raises ValueError unless 0 <= x < 256
ByteOK(x) == x >= 0 /\ x < 256

\* the variant of HeaderSizeOf that forgets the fixed word
HeaderSizeOf_NoFixedWord(extension_header) == Len(extension_header) \div 4

\* header_size = int(len(extension_header) / 4) + 1
HeaderSizeOf(extension_header) == Len(extension_header) \div 4 + 1

generate_header(version, message_type, message_type_specific_flags, serial_method, compression_type, reserved_data, extension_header) ==
    LET header_size == HeaderSizeOf(extension_header)
        b0 == BitOr(version * 16, header_size)
        b1 == BitOr(message_type * 16, message_type_specific_flags)
        b2 == BitOr(serial_method * 16, compression_type)
        b3 == reserved_data
    IN  IF ByteOK(b0) /\ ByteOK(b1) /\ ByteOK(b2) /\ ByteOK(b3)
        THEN [err |-> "none", bytes |-> <<b0, b1, b2, b3>> \o extension_header]
        ELSE [err |-> "ValueError", bytes |-> <<>>]

\* generate_header() with its default arguments
DefaultHeader ==
    generate_header(PROTOCOL_VERSION, CLIENT_FULL_REQUEST, MSG_WITH_EVENT,
                    JSON, GZIP, 0, <<>>).bytes

---------------------------------------------------------------------------
(* gzip and json, as far as parse_response depends on them *)

GzipMagic == <<31, 139>>

\* gzip.compress(b)
GzipCompress(b) == GzipMagic \o b

\* gzip.decompress left out: the compressed bytes are taken for the payload
GzipDecompress_Skipped(b) == [err |-> "none", v |-> b]

\* gzip.decompress(b): b"" gives b"", anything without the magic is BadGzipFile
GzipDecompress(b) ==
    IF b = <<>> THEN [err |-> "none", v |-> <<>>]
    ELSE IF Len(b) >= 2 /\ SubSeq(b, 1, 2) = GzipMagic
         THEN [err |-> "none", v |-> SubSeq(b, 3, Len(b))]
         ELSE [err |-> "BadGzipFile", v |-> <<>>]

\* payload_msg values: t is the Python type; a dict holds at most one key
NoPayload      == [t |-> "none",  key |-> "", v |-> <<>>]
BytesVal(b)    == [t |-> "bytes", key |-> "", v |-> b]
StrVal(b)      == [t |-> "str",   key |-> "", v |-> b]
DictVal(k, b)  == [t |-> "dict",  key |-> k,  v |-> b]

KeyCode(k) == CASE k = "content" -> 99 [] k = "dialog_id" -> 100 [] OTHER -> 120
KeyName(c) == CASE c = 99 -> "content" [] c = 100 -> "dialog_id" [] OTHER -> "other"

\* str.encode(json.dumps(d)) for a dict d of at most one string entry
JsonDumps(d) ==
    IF d.key = "" THEN <<123, 125>>
    ELSE <<123, KeyCode(d.key)>> \o d.v \o <<125>>

\* json.loads(str(b, "utf-8")): an object in braces, or JSONDecodeError
JsonLoads(b) ==
    IF Len(b) >= 2 /\ b[1] = 123 /\ b[Len(b)] = 125
    THEN IF Len(b) = 2
         THEN [err |-> "none", v |-> DictVal("", <<>>)]
         ELSE [err |-> "none", v |-> DictVal(KeyName(b[2]), SubSeq(b, 3, Len(b) - 1))]
    ELSE [err |-> "JSONDecodeError", v |-> NoPayload]

---------------------------------------------------------------------------
(* protocol_parser.py: parse_response *)

\* a websocket message: text (str) or binary (bytes)
Bin(b)  == [text |-> FALSE, b |-> b]
Text(b) == [text |-> TRUE,  b |-> b]

\* the header fields parse_response reads (lines 106-114); res[i] of a buffer
\* shorter than 4 bytes raises IndexError
ParseHeader(res) ==
    IF Len(res) < 4
    THEN [err |-> "IndexError", protocol_version |-> 0, header_size |-> 0,
          message_type |-> 0, message_type_specific_flags |-> 0,
          serialization_method |-> 0, message_compression |-> 0,
          reserved |-> 0, header_extensions |-> <<>>, payload |-> <<>>]
    ELSE LET header_size == res[1] % 16
         IN  [err |-> "none",
              protocol_version |-> res[1] \div 16,
              header_size |-> header_size,
              message_type |-> res[2] \div 16,
              message_type_specific_flags |-> res[2] % 16,
              serialization_method |-> res[3] \div 16,
              message_compression |-> res[3] % 16,
              reserved |-> res[4],
              header_extensions |-> PySlice(res, 4, header_size * 4),
              payload |-> PyFrom(res, header_size * 4)]

\* int.from_bytes(bs, "big", signed=True)
FromBytesSigned(bs) ==
    IF bs = <<>> \/ bs[1] < 128 THEN FromBytes(bs)
    ELSE 0 - (FromBytes([i \in 1..Len(bs) |-> 255 - bs[i]]) + 1)

\* what parse_response returns or raises; keys are the keys of the dict
ParseResult(status, keys, message_type, seq, event, session_id, code, payload_msg, payload_size) ==
    [status |-> status, keys |-> keys, message_type |-> message_type,
     seq |-> seq, event |-> event, session_id |-> session_id, code |-> code,
     payload_msg |-> payload_msg, payload_size |-> payload_size]

ParseRaised(e) == ParseResult(e, {}, "", -1, -1, <<>>, -1, NoPayload, -1)
ParseEmpty     == ParseResult("ok", {}, "", -1, -1, <<>>, -1, NoPayload, -1)

\* lines 141-151: decompress, deserialize, fill payload_msg and payload_size
DecodePayload(h, partial, payload_msg, payload_size) ==
    LET gz  == IF h.message_compression = GZIP
               THEN GzipDecompress(payload_msg)
               ELSE [err |-> "none", v |-> payload_msg]
        js  == IF h.serialization_method = JSON THEN JsonLoads(gz.v)
               ELSE IF h.serialization_method # NO_SERIALIZATION
                    THEN [err |-> "none", v |-> StrVal(gz.v)]
                    ELSE [err |-> "none", v |-> BytesVal(gz.v)]
    IN  IF gz.err # "none" THEN ParseRaised(gz.err)
        ELSE IF js.err # "none" THEN ParseRaised(js.err)
        ELSE [partial EXCEPT !.keys = @ \cup {"payload_msg", "payload_size"},
                             !.payload_msg = js.v,
                             !.payload_size = payload_size]

parse_response(res) ==
    IF res.text THEN ParseEmpty
    ELSE
    LET h == ParseHeader(res.b) IN
    IF h.err # "none" THEN ParseRaised(h.err)
    ELSE IF h.message_type = SERVER_FULL_RESPONSE \/ h.message_type = SERVER_ACK
    THEN LET hasSeq   == BitAnd(h.message_type_specific_flags, NEG_SEQUENCE) > 0
             hasEvent == BitAnd(h.message_type_specific_flags, MSG_WITH_EVENT) > 0
             first4   == FromBytes(PySlice(h.payload, 0, 4))
             start    == (IF hasSeq THEN 4 ELSE 0) + (IF hasEvent THEN 4 ELSE 0)
             p1       == PyFrom(h.payload, start)
             session_id_size == FromBytesSigned(PySlice(p1, 0, 4))
             session_id      == PySlice(p1, 4, session_id_size + 4)
             p2       == PyFrom(p1, 4 + session_id_size)
             payload_size == FromBytes(PySlice(p2, 0, 4))
             payload_msg  == PyFrom(p2, 4)
             partial  == ParseResult("ok",
                            {"message_type", "session_id"}
                               \cup (IF hasSeq THEN {"seq"} ELSE {})
                               \cup (IF hasEvent THEN {"event"} ELSE {}),
                            IF h.message_type = SERVER_ACK
                               THEN "SERVER_ACK" ELSE "SERVER_FULL_RESPONSE",
                            IF hasSeq THEN first4 ELSE -1,
                            IF hasEvent THEN first4 ELSE -1,
                            session_id, -1, NoPayload, -1)
         IN  DecodePayload(h, partial, payload_msg, payload_size)
    ELSE IF h.message_type = SERVER_ERROR_RESPONSE
    THEN LET code         == FromBytes(PySlice(h.payload, 0, 4))
             payload_size == FromBytes(PySlice(h.payload, 4, 8))
             payload_msg  == PyFrom(h.payload, 8)
             partial      == ParseResult("ok", {"code"}, "", -1, -1, <<>>, code,
                                         NoPayload, -1)
         IN  DecodePayload(h, partial, payload_msg, payload_size)
    ELSE ParseEmpty

---------------------------------------------------------------------------
(* The frames a server can put on the wire, in the layout parse_response   *)
(* documents (lines 86-103): header, [seq], [event], session id section,   *)
(* payload size, payload.                                                  *)

SessionId == <<115>>                \* context.session_id, "s"

\* an extension header of n 4-byte words
ExtWords(n) == [i \in 1..(4 * n) |-> i]

\* a SERVER_FULL_RESPONSE or SERVER_ACK frame
ServerFrame(message_type, flags, serial, compression, ext, payload) ==
    generate_header(PROTOCOL_VERSION, message_type, flags, serial,
                    compression, 0, ext).bytes
      \o (IF BitAnd(flags, NEG_SEQUENCE) > 0 THEN ToBytes4(7) ELSE <<>>)
      \o ToBytes4(Len(SessionId)) \o SessionId
      \o ToBytes4(Len(payload)) \o payload

\* a frame that carries an event code and a payload
EventFrame(message_type, event, serial, compression, payload) ==
    generate_header(PROTOCOL_VERSION, message_type, MSG_WITH_EVENT, serial,
                    compression, 0, <<>>).bytes
      \o ToBytes4(event)
      \o ToBytes4(Len(SessionId)) \o SessionId
      \o ToBytes4(Len(payload)) \o payload

\* a frame that carries a sequence number, then an event code (flags
\* NEG_SEQUENCE | MSG_WITH_EVENT), in the layout of lines 86-103
SeqEventFrame(message_type, seq, event, serial, compression, payload) ==
    generate_header(PROTOCOL_VERSION, message_type,
                    BitOr(NEG_SEQUENCE, MSG_WITH_EVENT), serial,
                    compression, 0, <<>>).bytes
      \o ToBytes4(seq) \o ToBytes4(event)
      \o ToBytes4(Len(SessionId)) \o SessionId
      \o ToBytes4(Len(payload)) \o payload

\* an event frame whose session-id length field holds ff ff ff fb, which
\* line 130 reads as the signed integer -5
NegativeLengthFrame(message_type, event, payload) ==
    generate_header(PROTOCOL_VERSION, message_type, MSG_WITH_EVENT,
                    NO_SERIALIZATION, NO_COMPRESSION, 0, <<>>).bytes
      \o ToBytes4(event)
      \o <<255, 255, 255, 251>>
      \o ToBytes4(Len(payload)) \o payload

\* an event with a gzip-compressed JSON object
JsonEvent(event, key, value) ==
    EventFrame(SERVER_FULL_RESPONSE, event, JSON, GZIP,
               GzipCompress(JsonDumps(DictVal(key, value))))

\* event 352 with raw audio bytes
AudioEvent(audio) ==
    EventFrame(SERVER_ACK, 352, NO_SERIALIZATION, NO_COMPRESSION, audio)

\* a SERVER_ERROR_RESPONSE frame
ErrorFrame(code, payload) ==
    generate_header(PROTOCOL_VERSION, SERVER_ERROR_RESPONSE, 0, JSON,
                    NO_COMPRESSION, 0, <<>>).bytes
      \o ToBytes4(code) \o ToBytes4(Len(payload)) \o payload

\* the bytes a value travels as, and the serialization method that says so
Serialize(value) ==
    CASE value.t = "dict" -> [serial |-> JSON, b |-> JsonDumps(value)]
      [] value.t = "str"  -> [serial |-> THRIFT, b |-> value.v]
      [] OTHER            -> [serial |-> NO_SERIALIZATION, b |-> value.v]

\* a SERVER_ERROR_RESPONSE frame for a code and a payload value, with the
\* payload compressed as the header's compression field says
ErrorFrameOf(code, compression, value) ==
    LET ser  == Serialize(value)
        body == IF compression = GZIP THEN GzipCompress(ser.b) ELSE ser.b
    IN  generate_header(PROTOCOL_VERSION, SERVER_ERROR_RESPONSE, 0, ser.serial,
                        compression, 0, <<>>).bytes
          \o ToBytes4(code) \o ToBytes4(Len(body)) \o body

NoError == [code |-> 0, compression |-> NO_COMPRESSION, payload |-> NoPayload]

\* ProtocolHandler.__init__ (protocol_handler.py lines 18-31)
ProtocolHandler(use_compression, use_protobuf) ==
    [use_compression |-> use_compression, use_protobuf |-> use_protobuf,
     serialization |-> IF use_protobuf THEN THRIFT ELSE JSON,
     compression |-> IF use_compression THEN GZIP ELSE NO_COMPRESSION]

NoCall == [by |-> "none", builder |-> "none", arg |-> <<>>]
NoKeepaliveTest == [last |-> 0, cur |-> 0, interval |-> 0, needed |-> "none"]

---------------------------------------------------------------------------
(* Initial values of the parts a specification does not run *)

IdleHandler ==
    /\ phCfg = ProtocolHandler(TRUE, FALSE)
    /\ bldPc = "off"
    /\ kaOut = NoKeepaliveTest
    /\ smRegistered = FALSE
    /\ smCreatedAt = -1
    /\ bldCall = NoCall
    /\ bldOut = [err |-> "none", bytes |-> <<>>]
    /\ audioCalls = 0
    /\ last_activity = -1
    /\ now = 0
    /\ smSent = <<>>
    /\ smRet = <<>>

IdleCodec ==
    /\ hdrIn = [version |-> 0, message_type |-> 0, flags |-> 0, serial |-> 0,
                compression |-> 0, reserved |-> 0, extension_header |-> <<>>]
    /\ hdrBytes = [err |-> "none", bytes |-> <<>>]
    /\ hdrOut = ParseHeader(<<>>)
    /\ parseIn = Bin(<<>>)
    /\ parseOut = ParseEmpty
    /\ codecPc = "off"
    /\ errIn = NoError

\* VolcEngineRealtimeContext.__init__ and HandlerVolcEngineRealtime.__init__
InitCtx ==
    /\ current_dialog_id = <<>>
    /\ is_connected = FALSE
    /\ is_session_active = FALSE
    /\ stop_event = FALSE
    /\ audio_input_queue = <<>>
    /\ audio_output_queue = <<>>
    /\ text_output_queue = <<>>
    /\ chat_buffer = <<>>
    /\ chat_session_active = FALSE
    /\ evlog = <<>>

IdleA ==
    /\ clientKind = "none"
    /\ pcA = "off"
    /\ pcAudio = "off"
    /\ pcResp = "off"
    /\ audioChunk = <<>>
    /\ wsA = "none"
    /\ wireA = <<>>
    /\ inboxA = <<>>

IdleB ==
    /\ pcB = "off"
    /\ pcSilence = "off"
    /\ pcRespB = "off"
    /\ session_finished_event = FALSE
    /\ fileLeft = 0
    /\ wsB = "none"
    /\ wireB = <<>>
    /\ inboxB = <<>>
    /\ runsB = 0
    /\ received_responses = <<>>

IdleOut ==
    /\ pcOut = "off"
    /\ pcDrain = "off"
    /\ outTaken = <<>>

IdleMgr ==
    /\ mgr = <<>>
    /\ mgrCalls = <<>>

IdleRec ==
    /\ rec = <<>>
    /\ recOut = <<>>
    /\ recIn = <<>>
    /\ recStartTs = 0

IdleRtc == rtc = <<>>

IdleExt == IdleOut /\ IdleMgr /\ IdleRec /\ IdleRtc

IdleEnv ==
    /\ srvSent = 0
    /\ chunksPut = 0
    /\ IdleExt

IdleDialog ==
    /\ dsPc = "off"
    /\ dsRunning = FALSE
    /\ dsRecording = FALSE
    /\ dsTasks = [resp |-> "off", text |-> "idle", file |-> "idle", stop |-> "idle"]
    /\ dsWs = "none"
    /\ dsWire = <<>>
    /\ dsMic = 0

---------------------------------------------------------------------------
(* SpecCodec: generate_header and parse_response applied to bounded inputs *)

ExtSizes == {0, 1, MaxExtWords, MaxHeaderSize - 1}

HdrInputs ==
    [version : {0, 1, 15},
     message_type : {1, 2, 9, 11, 15},
     flags : {0, 2, 4, 6, 15},
     serial : {0, 1, 3, 15},
     compression : {0, 1, 15},
     reserved : {0, 1, 128, 255},
     extension_header : {ExtWords(n) : n \in ExtSizes}]

\* extension headers of any length: not whole words, and more words than
\* the 4 bits of header_size count
ExtBytes(n) == [i \in 1..n |-> i]

ExtLengths == {0, 1, 3, 4, 5, 8, 4 * (MaxHeaderSize - 1), 4 * MaxHeaderSize,
               4 * MaxHeaderSize + 4}

HdrAnyInputs ==
    [version : {0, 1, 15},
     message_type : {1, 9},
     flags : {0, 4},
     serial : {0, 1},
     compression : {0, 1},
     reserved : {0},
     extension_header : {ExtBytes(n) : n \in ExtLengths}]

WholeFrames ==
    { JsonEvent(550, "content", <<72, 105>>),
      JsonEvent(150, "dialog_id", <<100, 49>>),
      AudioEvent(<<1, 2, 3>>),
      ServerFrame(SERVER_ACK, 0, NO_SERIALIZATION, NO_COMPRESSION,
                  ExtWords(1), <<9, 9>>),
      ServerFrame(SERVER_FULL_RESPONSE, NEG_SEQUENCE, JSON, NO_COMPRESSION,
                  ExtWords(MaxExtWords), JsonDumps(DictVal("", <<>>))),
      ServerFrame(SERVER_FULL_RESPONSE, 0, THRIFT, GZIP, <<>>,
                  GzipCompress(<<65>>)),
      ErrorFrame(4, JsonDumps(DictVal("other", <<98, 97, 100>>))),
      NegativeLengthFrame(SERVER_ACK, 352, <<1, 2, 3>>),
      SeqEventFrame(SERVER_ACK, 7, 352, NO_SERIALIZATION, NO_COMPRESSION,
                    <<1, 2, 3>>),
      SeqEventFrame(SERVER_FULL_RESPONSE, 550, 550, JSON, NO_COMPRESSION,
                    JsonDumps(DictVal("content", <<72, 105>>))),
      generate_header(PROTOCOL_VERSION, CLIENT_FULL_REQUEST, MSG_WITH_EVENT,
                      JSON, GZIP, 0, <<>>).bytes \o ToBytes4(1) }

\* every whole frame and every proper prefix of one, and a text message
ParseInputs ==
    { Bin(PySlice(f, 0, k)) : f \in WholeFrames, k \in 0..24 }
      \cup { Bin(f) : f \in WholeFrames } \cup { Text(<<104, 105>>) }

\* the errors a server reports: a code, and a payload in either compression
ErrInputs ==
    [code : {0, 7, 40000, 45000000},
     compression : {GZIP, NO_COMPRESSION},
     payload : {DictVal("", <<>>), DictVal("other", <<98, 97, 100>>),
                DictVal("content", <<>>), StrVal(<<111, 111>>), StrVal(<<>>),
                BytesVal(<<1, 2>>), BytesVal(<<>>), BytesVal(GzipMagic)}]

InitCodec ==
    /\ hdrBytes = [err |-> "none", bytes |-> <<>>]
    /\ hdrOut = ParseHeader(<<>>)
    /\ parseOut = ParseEmpty
    /\ \/ /\ codecPc = "hdr"
          /\ hdrIn \in HdrInputs
          /\ parseIn = Bin(<<>>)
       \/ /\ codecPc = "buf"
          /\ hdrIn = [version |-> 0, message_type |-> 0, flags |-> 0,
                      serial |-> 0, compression |-> 0, reserved |-> 0,
                      extension_header |-> <<>>]
          /\ parseIn \in ParseInputs
       \/ /\ codecPc = "hdrAny"
          /\ hdrIn \in HdrAnyInputs
          /\ parseIn = Bin(<<>>)
       \/ /\ codecPc = "err"
          /\ hdrIn = [version |-> 0, message_type |-> 0, flags |-> 0,
                      serial |-> 0, compression |-> 0, reserved |-> 0,
                      extension_header |-> <<>>]
          /\ errIn \in ErrInputs
          /\ parseIn = Bin(ErrorFrameOf(errIn.code, errIn.compression, errIn.payload))
    /\ codecPc \in {"hdr", "hdrAny", "buf"} => errIn = NoError
    /\ IdleHandler /\ InitCtx /\ IdleA /\ IdleB /\ IdleEnv /\ IdleDialog

CodecEncode ==
    /\ codecPc \in {"hdr", "hdrAny"}
    /\ hdrBytes' = generate_header(hdrIn.version, hdrIn.message_type, hdrIn.flags,
                                   hdrIn.serial, hdrIn.compression,
                                   hdrIn.reserved, hdrIn.extension_header)
    /\ codecPc' = IF codecPc = "hdr" THEN "hdrEncoded" ELSE "hdrAnyEncoded"
    /\ UNCHANGED <<hdrIn, hdrOut, parseIn, parseOut, handlerVars>>
    /\ UNCHANGED <<ctxVars, flowAVars, flowBVars, envVars, dialogVars>>

CodecDecode ==
    /\ codecPc \in {"hdrEncoded", "hdrAnyEncoded"}
    /\ hdrBytes.err = "none"
    /\ hdrOut' = ParseHeader(hdrBytes.bytes)
    /\ codecPc' = IF codecPc = "hdrEncoded" THEN "hdrDecoded" ELSE "hdrAnyDecoded"
    /\ UNCHANGED <<hdrIn, hdrBytes, parseIn, parseOut, handlerVars>>
    /\ UNCHANGED <<ctxVars, flowAVars, flowBVars, envVars, dialogVars>>

CodecParse ==
    /\ codecPc \in {"buf", "err"}
    /\ parseOut' = parse_response(parseIn)
    /\ codecPc' = IF codecPc = "buf" THEN "parsed" ELSE "errParsed"
    /\ UNCHANGED <<hdrIn, hdrBytes, hdrOut, parseIn, handlerVars>>
    /\ UNCHANGED <<ctxVars, flowAVars, flowBVars, envVars, dialogVars>>

NextCodec == CodecEncode \/ CodecDecode \/ CodecParse

SpecCodec == InitCodec /\ [][NextCodec]_vars

\* C9: for in-range header fields and an extension header of whole words with
\* header_size <= 15, the fields and the extension bytes parse_response reads
\* from the bytes generate_header produced are the ones that went in.
C9_HeaderRoundTrip ==
    codecPc = "hdrDecoded" =>
        /\ hdrOut.err = "none"
        /\ hdrOut.protocol_version = hdrIn.version
        /\ hdrOut.header_size = Len(hdrIn.extension_header) \div 4 + 1
        /\ hdrOut.message_type = hdrIn.message_type
        /\ hdrOut.message_type_specific_flags = hdrIn.flags
        /\ hdrOut.serialization_method = hdrIn.serial
        /\ hdrOut.message_compression = hdrIn.compression
        /\ hdrOut.reserved = hdrIn.reserved
        /\ hdrOut.header_extensions = hdrIn.extension_header
        /\ hdrOut.payload = <<>>

C9_Witness ==
    /\ codecPc = "hdrDecoded"
    /\ hdrIn.version = 15
    /\ hdrIn.reserved = 255
    /\ Len(hdrIn.extension_header) = 4 * (MaxHeaderSize - 1)
    /\ hdrOut.header_extensions = hdrIn.extension_header

\* the buffers C10 is about: shorter than 4 bytes, or shorter than the
\* 4 * header_size bytes the first byte declares
ShortBuffer(b) == Len(b) < 4 \/ Len(b) < 4 * (b[1] % 16)

\* C10 (as claimed): parse_response applied to a buffer shorter than 4 bytes,
\* or shorter than its declared header, fails (any exception is taken for the
\* MalformedFrame error) and returns no partially filled result.
C10_ShortBufferFails ==
    (codecPc = "parsed" /\ ~parseIn.text /\ ShortBuffer(parseIn.b)) =>
        (parseOut.status # "ok" /\ parseOut.keys = {})

\* C11: parse_response applied to a SERVER_ERROR_RESPONSE frame returns the
\* 4-byte error code and the decoded payload the frame was built from, which
\* is the same whether the payload travelled gzip-compressed or uncompressed.
C11_ErrorFrameDecoded ==
    codecPc = "errParsed" =>
        /\ parseOut.status = "ok"
        /\ parseOut.keys = {"code", "payload_msg", "payload_size"}
        /\ parseOut.code = errIn.code
        /\ parseOut.payload_msg = errIn.payload

C11_Witness ==
    /\ codecPc = "errParsed"
    /\ errIn.compression = GZIP
    /\ errIn.code = 40000
    /\ parseOut.code = 40000
    /\ parseOut.payload_msg = DictVal("other", <<98, 97, 100>>)

\* the whole frames of SERVER_FULL_RESPONSE or SERVER_ACK that set both
\* NEG_SEQUENCE and MSG_WITH_EVENT
SeqAndEvent(res) ==
    /\ ~res.text
    /\ res.b \in WholeFrames
    /\ ParseHeader(res.b).message_type \in {SERVER_FULL_RESPONSE, SERVER_ACK}
    /\ BitAnd(ParseHeader(res.b).message_type_specific_flags, NEG_SEQUENCE) > 0
    /\ BitAnd(ParseHeader(res.b).message_type_specific_flags, MSG_WITH_EVENT) > 0

PayloadMark == <<170>>

\* the header is 4 * header_size bytes long, header_size being the low 4
\* bits of its first byte, the high 4 bits are the version, and a payload
\* appended to it is found at offset 4 * header_size
HeaderSizeLocatesPayload ==
    /\ hdrBytes.err = "none"
    /\ Len(hdrBytes.bytes) = 4 * (hdrBytes.bytes[1] % 16)
    /\ hdrBytes.bytes[1] \div 16 = hdrIn.version
    /\ hdrOut.header_size = hdrBytes.bytes[1] % 16
    /\ ParseHeader(hdrBytes.bytes \o PayloadMark).payload = PayloadMark

\* C26 (as claimed): for every extension header passed to generate_header
\* the header returned is exactly 4 * header_size bytes long, header_size
\* being the low 4 bits of the first byte and the high 4 bits the protocol
\* version, so that the payload starts at offset 4 * header_size.
C26_HeaderSizeAnyExtension ==
    codecPc = "hdrAnyDecoded" => HeaderSizeLocatesPayload

\* C26 (amended): the same for every extension header whose length is a
\* multiple of 4 and at most 56 bytes, that is, header_size at most 15.
C26_HeaderSizeWholeWords ==
    (/\ codecPc = "hdrAnyDecoded"
     /\ Len(hdrIn.extension_header) % 4 = 0
     /\ Len(hdrIn.extension_header) <= 4 * (MaxHeaderSize - 1)) =>
        HeaderSizeLocatesPayload

\* the longest extension header the 4 bits can count, decoded
C26_Witness ==
    /\ codecPc = "hdrAnyDecoded"
    /\ Len(hdrIn.extension_header) = 4 * (MaxHeaderSize - 1)
    /\ hdrOut.header_size = MaxHeaderSize
    /\ hdrIn.version = 15

\* the session-id length parse_response reads from a SERVER_FULL_RESPONSE
\* or SERVER_ACK buffer b (lines 123-130)
SessionIdSizeOf(b) ==
    LET h     == ParseHeader(b)
        start == (IF BitAnd(h.message_type_specific_flags, NEG_SEQUENCE) > 0
                  THEN 4 ELSE 0)
                 + (IF BitAnd(h.message_type_specific_flags, MSG_WITH_EVENT) > 0
                    THEN 4 ELSE 0)
    IN  FromBytesSigned(PySlice(PyFrom(h.payload, start), 0, 4))

\* the whole server frames whose session-id length decodes to a negative
\* value
NegativeSessionIdLength(res) ==
    /\ ~res.text
    /\ res.b \in WholeFrames
    /\ ParseHeader(res.b).err = "none"
    /\ ParseHeader(res.b).message_type \in {SERVER_FULL_RESPONSE, SERVER_ACK}
    /\ SessionIdSizeOf(res.b) < 0

\* C27 (as claimed): a server frame whose session-id length decodes to a
\* negative value is rejected: parse_response raises, and returns no session
\* id, payload size or payload derived from the negative length.
C27_NegativeLengthRejected ==
    (codecPc = "parsed" /\ NegativeSessionIdLength(parseIn)) =>
        (parseOut.status # "ok" /\ parseOut.keys = {})

---------------------------------------------------------------------------
(* realtime_handler_volcengine.py: the event dispatcher.  It reads and     *)
(* writes the record d of the fields it touches:                           *)
(*   text_output_queue, audio_output_queue, chat_buffer,                   *)
(*   chat_session_active (context) and current_dialog_id (handler).        *)

DispatchState ==
    [text_output_queue |-> text_output_queue,
     audio_output_queue |-> audio_output_queue,
     chat_buffer |-> chat_buffer,
     chat_session_active |-> chat_session_active,
     current_dialog_id |-> current_dialog_id]

\* str.isspace() on one ASCII character
IsSpace(c) == c \in {9, 10, 11, 12, 13, 28, 29, 30, 31, 32}

RECURSIVE LStrip(_)
LStrip(s) == IF s # <<>> /\ IsSpace(s[1]) THEN LStrip(Tail(s)) ELSE s

RECURSIVE RStrip(_)
RStrip(s) ==
    IF s # <<>> /\ IsSpace(s[Len(s)]) THEN RStrip(SubSeq(s, 1, Len(s) - 1)) ELSE s

\* str.strip()
Strip(s) == RStrip(LStrip(s))

\* payload_msg.get(key, default) on a dict value
DictGet(d, k, default) == IF d.key = k THEN d.v ELSE default

\* _handle_audio_data (lines 1131-1156)
handle_audio_data(d, audio_data) ==
    IF audio_data = <<>> THEN d
    ELSE [d EXCEPT !.audio_output_queue =
                 Append(@, [type |-> "tts_audio", data |-> audio_data])]

\* the variant of _flush_chat_buffer that resets the buffer without the put
flush_chat_buffer_Silent(d) ==
    [d EXCEPT !.chat_buffer = <<>>, !.chat_session_active = FALSE]

\* _flush_chat_buffer (lines 1076-1089)
flush_chat_buffer(d) ==
    LET complete_message == Strip(d.chat_buffer)
        q == IF complete_message # <<>>
             THEN Append(d.text_output_queue, complete_message)
             ELSE d.text_output_queue
    IN  [d EXCEPT !.text_output_queue = q,
                  !.chat_buffer = <<>>,
                  !.chat_session_active = FALSE]

\* the variant of _handle_chat_response that assigns the fragment to the
\* buffer (=) where the code appends it (+=)
handle_chat_response_Overwrite(d, payload_msg) ==
    IF payload_msg.t # "dict" THEN d
    ELSE LET content == DictGet(payload_msg, "content", <<>>) IN
         IF content = <<>>
         THEN [d EXCEPT !.chat_buffer = <<>>, !.chat_session_active = TRUE]
         ELSE [d EXCEPT !.chat_buffer = content]

\* _handle_chat_response (lines 1037-1074)
handle_chat_response(d, payload_msg) ==
    IF payload_msg.t # "dict" THEN d
    ELSE LET content == DictGet(payload_msg, "content", <<>>) IN
         IF content = <<>>
         THEN LET d1 == IF d.chat_session_active THEN flush_chat_buffer(d) ELSE d
              IN  [d1 EXCEPT !.chat_buffer = <<>>, !.chat_session_active = TRUE]
         ELSE IF d.chat_session_active
              THEN [d EXCEPT !.chat_buffer = @ \o content]
              ELSE IF Strip(content) # <<>>
                   THEN [d EXCEPT !.text_output_queue = Append(@, Strip(content))]
                   ELSE d

\* _handle_session_started (lines 1091-1115)
handle_session_started(d, payload_msg) ==
    IF payload_msg.t = "dict" /\ DictGet(payload_msg, "dialog_id", <<>>) # <<>>
    THEN [d EXCEPT !.current_dialog_id = DictGet(payload_msg, "dialog_id", <<>>)]
    ELSE d

\* _handle_chat_session_end (lines 1117-1121)
handle_chat_session_end(d) ==
    IF d.chat_session_active THEN flush_chat_buffer(d) ELSE d

\* _parse_and_handle_response (lines 921-977); response is a parse_response
\* result.  A dict never holds bytes under "audio" (json has no bytes), and
\* the single-entry dicts of this model hold no "results" list, so the 451
\* branch and the dict branches of 352 queue nothing.
parse_and_handle_response(d, response) ==
    IF response.keys = {} THEN d
    ELSE LET event       == IF "event" \in response.keys THEN response.event ELSE -1
             payload_msg == response.payload_msg
         IN  CASE event = 451 -> d
               [] event = 350 -> d
               [] event = 352 -> IF payload_msg.t = "bytes"
                                 THEN handle_audio_data(d, payload_msg.v)
                                 ELSE d
               [] event = 150 -> handle_session_started(d, payload_msg)
               [] event = 152 -> handle_chat_session_end(d)
               [] event = 153 -> handle_chat_session_end(d)
               [] event = 450 -> d
               [] event = 550 -> handle_chat_response(d, payload_msg)
               [] OTHER ->
                    IF response.message_type = "SERVER_ACK" /\ payload_msg.t = "bytes"
                    THEN handle_audio_data(d, payload_msg.v)
                    ELSE d

\* is_error_response (protocol_parser.py lines 193-195): .get gives None
\* for a result without the key
is_error_response(parsed_response) ==
    /\ "message_type" \in parsed_response.keys
    /\ parsed_response.message_type = "SERVER_ERROR_RESPONSE"

\* the test of lines 958-971 that leads to the error log of line 971
error_branch(response) ==
    /\ response.keys # {}
    /\ ~("event" \in response.keys
           /\ response.event \in {451, 350, 352, 150, 152, 153, 450, 550})
    /\ ~("message_type" \in response.keys /\ response.message_type = "SERVER_ACK")
    /\ "message_type" \in response.keys
    /\ response.message_type = "SERVER_ERROR_RESPONSE"

\* the name of the kind of a frame whose message type is one of the three
\* server kinds
KindName(message_type) ==
    CASE message_type = SERVER_FULL_RESPONSE  -> "SERVER_FULL_RESPONSE"
      [] message_type = SERVER_ACK            -> "SERVER_ACK"
      [] message_type = SERVER_ERROR_RESPONSE -> "SERVER_ERROR_RESPONSE"
      [] OTHER                                -> ""

\* C25 (as claimed): every result parse_response returns for a
\* SERVER_FULL_RESPONSE, SERVER_ACK or SERVER_ERROR_RESPONSE frame holds a
\* message_type naming that kind, so that is_error_response and the error
\* branch of the dispatcher are true exactly for SERVER_ERROR_RESPONSE frames.
C25_MessageTypeDiscriminant ==
    (/\ codecPc \in {"parsed", "errParsed"}
     /\ ~parseIn.text
     /\ parseOut.status = "ok"
     /\ KindName(ParseHeader(parseIn.b).message_type) # "") =>
        LET kind == KindName(ParseHeader(parseIn.b).message_type) IN
        /\ "message_type" \in parseOut.keys
        /\ parseOut.message_type = kind
        /\ is_error_response(parseOut) <=> (kind = "SERVER_ERROR_RESPONSE")
        /\ error_branch(parseOut) <=> (kind = "SERVER_ERROR_RESPONSE")

\* what a receive loop hands on: the loop, the event code and the payload
LogEntry(loop, response) ==
    [loop |-> loop,
     event |-> IF "event" \in response.keys THEN response.event ELSE -1,
     payload |-> response.payload_msg]

\* the context and handler fields after a dispatch
Dispatched(d) ==
    /\ text_output_queue' = d.text_output_queue
    /\ audio_output_queue' = d.audio_output_queue
    /\ chat_buffer' = d.chat_buffer
    /\ chat_session_active' = d.chat_session_active
    /\ current_dialog_id' = d.current_dialog_id

---------------------------------------------------------------------------
(* SpecDispatch: _parse_and_handle_response applied to every sequence of   *)
(* up to MaxEvents server events, on a fresh context                       *)

Content == { <<72>>, <<32, 119>>, <<32>> }      \* "H", " w", " "

DispatchFrames ==
    { JsonEvent(550, "content", <<>>), JsonEvent(152, "", <<>>),
      JsonEvent(153, "", <<>>), AudioEvent(<<1, 2>>), AudioEvent(<<>>),
      JsonEvent(150, "dialog_id", <<100, 49>>) }
      \cup { JsonEvent(550, "content", c) : c \in Content }

InitDispatch ==
    /\ IdleCodec /\ IdleHandler /\ InitCtx /\ IdleA /\ IdleB /\ IdleEnv /\ IdleDialog

DispatchEvent ==
    /\ Len(evlog) < MaxEvents
    /\ \E f \in DispatchFrames :
         LET response == parse_response(Bin(f)) IN
         /\ response.status = "ok"
         /\ Dispatched(parse_and_handle_response(DispatchState, response))
         /\ evlog' = Append(evlog, LogEntry("B", response))
    /\ UNCHANGED <<is_connected, is_session_active, stop_event, audio_input_queue>>
    /\ UNCHANGED <<codecVars, flowAVars, flowBVars, envVars, dialogVars>>

NextDispatch == DispatchEvent

SpecDispatch == InitDispatch /\ [][NextDispatch]_vars

\* the content of a dispatched 550 event
ContentOf(e) == DictGet(e.payload, "content", <<>>)

RECURSIVE Concat(_)
Concat(ss) == IF ss = <<>> THEN <<>> ELSE Head(ss) \o Concat(Tail(ss))

\* the log is: 550 with empty content, one or more 550 with non-empty
\* content, then 152 or 153
ChatRound(log) ==
    /\ Len(log) >= 3
    /\ log[1].event = 550 /\ ContentOf(log[1]) = <<>>
    /\ \A i \in 2..(Len(log) - 1) : log[i].event = 550 /\ ContentOf(log[i]) # <<>>
    /\ log[Len(log)].event \in {152, 153}

\* c1..cn of a chat round, concatenated in arrival order
RoundText(log) == Concat([i \in 1..(Len(log) - 2) |-> ContentOf(log[i + 1])])

\* C5 (as claimed): a chat round pushes exactly one message to the text
\* output queue, the concatenation of c1..cn.
C5_OneMessageIsConcatenation ==
    ChatRound(evlog) => text_output_queue = <<RoundText(evlog)>>

\* C5 (amended): a chat round pushes the concatenation of c1..cn with leading
\* and trailing whitespace removed, as exactly one message, when that is not
\* empty, and pushes nothing when c1..cn hold only whitespace.
C5_OneMessageIsStrippedConcatenation ==
    ChatRound(evlog) =>
        text_output_queue =
            (IF Strip(RoundText(evlog)) = <<>> THEN <<>>
             ELSE <<Strip(RoundText(evlog))>>)

C5_Witness ==
    /\ ChatRound(evlog)
    /\ Len(evlog) = 4
    /\ text_output_queue = <<<<72, 32, 119>>>>

\* the step dispatches a 550 event whose content is empty
Dispatches550Empty ==
    /\ Len(evlog') = Len(evlog) + 1
    /\ evlog'[Len(evlog')].event = 550
    /\ evlog'[Len(evlog')].payload.t = "dict"
    /\ ContentOf(evlog'[Len(evlog')]) = <<>>

\* C29 (as claimed): processing a 550 event with empty content leaves the
\* chat session active with an empty buffer, and if a chat session was
\* active with accumulated text, that text is pushed to the text output
\* queue exactly once before the buffer is reset.
C29_EmptyContentFlushesText ==
    [][Dispatches550Empty =>
         /\ chat_session_active' /\ chat_buffer' = <<>>
         /\ text_output_queue' =
               IF chat_session_active /\ chat_buffer # <<>>
               THEN Append(text_output_queue, chat_buffer)
               ELSE text_output_queue]_vars

\* C29 (amended): the text is pushed with leading and trailing whitespace
\* removed, exactly once, when that is not empty; nothing is pushed when the
\* accumulated text holds only whitespace.
C29_EmptyContentFlushesStrippedText ==
    [][Dispatches550Empty =>
         /\ chat_session_active' /\ chat_buffer' = <<>>
         /\ text_output_queue' =
               IF chat_session_active /\ Strip(chat_buffer) # <<>>
               THEN Append(text_output_queue, Strip(chat_buffer))
               ELSE text_output_queue]_vars

\* a 550 with empty content arrived while a chat session held "H w"
C29_Witness ==
    /\ Len(evlog) = 4
    /\ evlog[1].event = 550 /\ ContentOf(evlog[1]) = <<>>
    /\ evlog[2].event = 550 /\ ContentOf(evlog[2]) = <<72>>
    /\ evlog[3].event = 550 /\ ContentOf(evlog[3]) = <<32, 119>>
    /\ evlog[4].event = 550 /\ ContentOf(evlog[4]) = <<>>
    /\ text_output_queue = <<<<72, 32, 119>>>>
    /\ chat_session_active /\ chat_buffer = <<>>

---------------------------------------------------------------------------
(* volcengine_client.py: what VolcEngineRealtimeClient writes to its socket *)

\* a frame on the wire: the message, the audio it carries, and the
\* dialog_id of the dialog section of a StartSession payload (<<>>: none)
Frame(kind, data, dialog_id) == [kind |-> kind, data |-> data, dialog_id |-> dialog_id]

\* file_client_config["start_session_req"] (lines 716-730): asr and tts
\* sections, no dialog section
ConfigDialogId == <<>>

\* connect(), lines 48-61: the StartSession frame carries
\* self.config["start_session_req"]
StartSessionFrame == Frame("StartSession", <<>>, ConfigDialogId)

\* start_session(start_session_req), lines 69-72: logs and sends nothing
client_start_session(wire, start_session_req) == wire

\* send_audio_data(audio), lines 125-138
AudioFrame(audio) == Frame("AudioChunk", audio, <<>>)

\* _connect_and_process, lines 445-489: the request built for start_session;
\* its dialog carries current_dialog_id when the handler has one
BuildStartSessionReq(dialog_id) == [dialog_id |-> dialog_id]

\* the silence chunk of send_silence_audio (line 793), b"\x00" * 320
SilenceData == <<0>>

\* the frames the server sends in the handler flows
SrvFrames ==
    { JsonEvent(50, "", <<>>),                      \* an acknowledgement
      JsonEvent(152, "", <<>>),                     \* session ended
      AudioEvent(<<1, 2>>),                         \* TTS audio
      JsonEvent(150, "dialog_id", <<100, 49>>),     \* session started
      ErrorFrame(7, JsonDumps(DictVal("", <<>>))),  \* an error response
      EventFrame(SERVER_FULL_RESPONSE, 550, JSON, GZIP, <<1, 2, 3>>),
                                                    \* whole, but not gzip
      <<17, 148>> }                                 \* a truncated frame

\* parse_response on each of them, computed once
SrvParsed == [f \in SrvFrames |-> parse_response(Bin(f))]

\* receive_server_response(), lines 140-146: parse_response(await ws.recv())
\* on the frame at the head of the inbox; status is "ok" or the exception
receive_server_response(f) == SrvParsed[f]

---------------------------------------------------------------------------
(* Flow A: _processing_loop -> _connect_and_process on context.client      *)

\* context.client: None (a context built without create_context),
\* built by create_context from ws_config (lines 191-206, no
\* "ws_connect_config" key), or a client holding the configuration connect()
\* reads (as file_client_config, lines 705-738)
ClientKinds == {"none", "ws_config", "full"}

InitA ==
    /\ IdleCodec /\ IdleHandler /\ InitCtx /\ IdleB /\ IdleEnv /\ IdleDialog
    /\ clientKind \in ClientKinds
    /\ pcA = "start"
    /\ pcAudio = "off"
    /\ pcResp = "off"
    /\ audioChunk = <<>>
    /\ wsA = "none"
    /\ wireA = <<>>
    /\ inboxA = <<>>

\* lines 428-437 and connect() lines 22-45: open the socket, send StartConnection
A_Start ==
    /\ pcA = "start"
    /\ \/ /\ clientKind \in {"none", "ws_config"}  \* return, or KeyError at line 24
          /\ pcA' = "finally"
          /\ UNCHANGED <<wsA, wireA>>
       \/ /\ clientKind = "full"                    \* websockets.connect raises
          /\ pcA' = "finally"
          /\ UNCHANGED <<wsA, wireA>>
       \/ /\ clientKind = "full"
          /\ wsA' = "open"
          /\ wireA' = Append(wireA, Frame("StartConnection", <<>>, <<>>))
          /\ pcA' = "conn_ack"
    /\ UNCHANGED <<clientKind, pcAudio, pcResp, audioChunk, inboxA>>
    /\ UNCHANGED <<codecVars, ctxVars, flowBVars, envVars, dialogVars>>

\* connect() lines 46-61: receive and parse the StartConnection response,
\* send StartSession
A_ConnAck ==
    /\ pcA = "conn_ack"
    /\ \/ /\ wsA = "open" /\ inboxA # <<>>
          /\ inboxA' = Tail(inboxA)
          /\ IF receive_server_response(Head(inboxA)).status = "ok"
             THEN /\ wireA' = Append(wireA, StartSessionFrame)
                  /\ pcA' = "sess_ack"
             ELSE /\ pcA' = "finally"
                  /\ UNCHANGED wireA
       \/ /\ wsA = "broken"
          /\ pcA' = "finally"
          /\ UNCHANGED <<wireA, inboxA>>
    /\ UNCHANGED <<clientKind, pcAudio, pcResp, audioChunk, wsA>>
    /\ UNCHANGED <<codecVars, ctxVars, flowBVars, envVars, dialogVars>>

\* connect() lines 62-63 and _connect_and_process lines 438-500: receive the
\* StartSession response, mark the context, call start_session, start the tasks
A_SessAck ==
    /\ pcA = "sess_ack"
    /\ \/ /\ wsA = "open" /\ inboxA # <<>>
          /\ inboxA' = Tail(inboxA)
          /\ IF receive_server_response(Head(inboxA)).status = "ok"
             THEN /\ is_connected' = TRUE
                  /\ wireA' = client_start_session(wireA,
                                  BuildStartSessionReq(current_dialog_id))
                  /\ is_session_active' = TRUE
                  /\ pcAudio' = "head"
                  /\ pcResp' = "head"
                  /\ pcA' = "gather"
             ELSE /\ pcA' = "finally"
                  /\ UNCHANGED <<is_connected, is_session_active, pcAudio,
                                 pcResp, wireA>>
       \/ /\ wsA = "broken"
          /\ pcA' = "finally"
          /\ UNCHANGED <<is_connected, is_session_active, pcAudio, pcResp,
                         wireA, inboxA>>
    /\ UNCHANGED <<clientKind, audioChunk, wsA>>
    /\ UNCHANGED <<current_dialog_id, stop_event, audio_input_queue,
                   audio_output_queue, text_output_queue, chat_buffer,
                   chat_session_active, evlog>>
    /\ UNCHANGED <<codecVars, flowBVars, envVars, dialogVars>>

\* the variant of the gather that does not wait for the tasks
GatherDone_NoWait == TRUE

\* asyncio.gather(audio_task, response_task, return_exceptions=True) is done
GatherDone == pcAudio = "done" /\ pcResp = "done"

\* line 504: asyncio.gather returns when both tasks have finished
A_Gather ==
    /\ pcA = "gather"
    /\ GatherDone
    /\ pcA' = "finally"
    /\ UNCHANGED <<clientKind, pcAudio, pcResp, audioChunk, wsA, wireA, inboxA>>
    /\ UNCHANGED <<codecVars, ctxVars, flowBVars, envVars, dialogVars>>

\* lines 517-533: sleep, then finish_session if the session is active
A_FinishSession ==
    /\ pcA = "finally"
    /\ IF is_session_active /\ wsA = "open"
       THEN /\ wireA' = Append(wireA, Frame("FinishSession", <<>>, <<>>))
            /\ is_session_active' = FALSE
       ELSE UNCHANGED <<wireA, is_session_active>>   \* skipped, or send raised
    /\ pcA' = "fin_conn"
    /\ UNCHANGED <<clientKind, pcAudio, pcResp, audioChunk, wsA, inboxA>>
    /\ UNCHANGED <<current_dialog_id, is_connected, stop_event, audio_input_queue,
                   audio_output_queue, text_output_queue, chat_buffer,
                   chat_session_active, evlog>>
    /\ UNCHANGED <<codecVars, flowBVars, envVars, dialogVars>>

\* lines 536-541 and finish_connection() lines 159-166: sleep, then send
\* FinishConnection if the context is connected
A_FinishConnection ==
    /\ pcA = "fin_conn"
    /\ IF is_connected /\ wsA = "open"
       THEN /\ wireA' = Append(wireA, Frame("FinishConnection", <<>>, <<>>))
            /\ pcA' = "fin_ack"
       ELSE /\ pcA' = "done"                         \* skipped, or send raised
            /\ UNCHANGED wireA
    /\ UNCHANGED <<clientKind, pcAudio, pcResp, audioChunk, wsA, inboxA>>
    /\ UNCHANGED <<codecVars, ctxVars, flowBVars, envVars, dialogVars>>

\* finish_connection() lines 167-168 and lines 542-545: receive and parse the
\* response; is_connected is cleared unless that raised
A_FinAck ==
    /\ pcA = "fin_ack"
    /\ \/ /\ wsA = "open" /\ inboxA # <<>>
          /\ inboxA' = Tail(inboxA)
          /\ is_connected' = (receive_server_response(Head(inboxA)).status # "ok")
       \/ /\ wsA = "broken"
          /\ UNCHANGED <<inboxA, is_connected>>
    /\ pcA' = "done"
    /\ UNCHANGED <<clientKind, pcAudio, pcResp, audioChunk, wsA, wireA>>
    /\ UNCHANGED <<current_dialog_id, is_session_active, stop_event,
                   audio_input_queue, audio_output_queue, text_output_queue,
                   chat_buffer, chat_session_active, evlog>>
    /\ UNCHANGED <<codecVars, flowBVars, envVars, dialogVars>>

\* the loop of line 898 going on without a look at the stop event
Au_Head_IgnoresStop ==
    /\ pcAudio = "head"
    /\ pcAudio' = "get"
    /\ UNCHANGED <<clientKind, pcA, pcResp, audioChunk, wsA, wireA, inboxA>>
    /\ UNCHANGED <<codecVars, ctxVars, flowBVars, envVars, dialogVars>>

\* _handle_audio_input line 898: the loop condition
Au_Head ==
    /\ pcAudio = "head"
    /\ pcAudio' = IF stop_event THEN "done" ELSE "get"
    /\ UNCHANGED <<clientKind, pcA, pcResp, audioChunk, wsA, wireA, inboxA>>
    /\ UNCHANGED <<codecVars, ctxVars, flowBVars, envVars, dialogVars>>

\* the loop of lines 898-917 taking the chunk put last instead of the oldest
Au_Get_Lifo ==
    /\ pcAudio = "get"
    /\ IF audio_input_queue = <<>>
       THEN /\ pcAudio' = "head"
            /\ UNCHANGED <<audio_input_queue, audioChunk, wireA>>
       ELSE /\ audio_input_queue' =
                   SubSeq(audio_input_queue, 1, Len(audio_input_queue) - 1)
            /\ IF wsA = "open"
               THEN /\ audioChunk' = audio_input_queue[Len(audio_input_queue)]
                    /\ wireA' = Append(wireA,
                           AudioFrame(audio_input_queue[Len(audio_input_queue)]))
                    /\ pcAudio' = "sending"
               ELSE /\ pcAudio' = "done"
                    /\ UNCHANGED <<audioChunk, wireA>>
    /\ UNCHANGED <<clientKind, pcA, pcResp, wsA, inboxA>>
    /\ UNCHANGED <<current_dialog_id, is_connected, is_session_active, stop_event,
                   audio_output_queue, text_output_queue, chat_buffer,
                   chat_session_active, evlog>>
    /\ UNCHANGED <<codecVars, flowBVars, envVars, dialogVars>>

\* lines 901-917: take a chunk and enter send_audio_data; on queue.Empty the
\* loop sleeps and starts over; an exception of the send ends the loop
Au_Get ==
    /\ pcAudio = "get"
    /\ IF audio_input_queue = <<>>
       THEN /\ pcAudio' = "head"
            /\ UNCHANGED <<audio_input_queue, audioChunk, wireA>>
       ELSE /\ audio_input_queue' = Tail(audio_input_queue)
            /\ IF wsA = "open"
               THEN /\ audioChunk' = Head(audio_input_queue)
                    /\ wireA' = Append(wireA, AudioFrame(Head(audio_input_queue)))
                    /\ pcAudio' = "sending"
               ELSE /\ pcAudio' = "done"
                    /\ UNCHANGED <<audioChunk, wireA>>
    /\ UNCHANGED <<clientKind, pcA, pcResp, wsA, inboxA>>
    /\ UNCHANGED <<current_dialog_id, is_connected, is_session_active, stop_event,
                   audio_output_queue, text_output_queue, chat_buffer,
                   chat_session_active, evlog>>
    /\ UNCHANGED <<codecVars, flowBVars, envVars, dialogVars>>

\* line 906: the send returns, or raises on a broken socket
Au_Sent ==
    /\ pcAudio = "sending"
    /\ pcAudio' = IF wsA = "open" THEN "head" ELSE "done"
    /\ audioChunk' = <<>>
    /\ UNCHANGED <<clientKind, pcA, pcResp, wsA, wireA, inboxA>>
    /\ UNCHANGED <<codecVars, ctxVars, flowBVars, envVars, dialogVars>>

\* _handle_server_responses line 1163: the loop condition
Ra_Head ==
    /\ pcResp = "head"
    /\ pcResp' = IF stop_event THEN "done" ELSE "recv"
    /\ UNCHANGED <<clientKind, pcA, pcAudio, audioChunk, wsA, wireA, inboxA>>
    /\ UNCHANGED <<codecVars, ctxVars, flowBVars, envVars, dialogVars>>

\* _process_server_response (lines 1186-1202): a response is handed on only
\* if it has a "text" or an "audio" key; parse_response sets neither
process_server_response(d, response) ==
    IF "text" \in response.keys THEN d
    ELSE IF "audio" \in response.keys THEN d
    ELSE d

\* lines 1166-1182: receive (blocking), parse and process one response; an
\* exception ends the loop only if its text mentions the connection
Ra_Recv ==
    /\ pcResp = "recv"
    /\ \/ /\ wsA = "open" /\ inboxA # <<>>
          /\ inboxA' = Tail(inboxA)
          /\ LET response == receive_server_response(Head(inboxA)) IN
             IF response.status = "ok"
             THEN /\ Dispatched(process_server_response(DispatchState, response))
                  /\ evlog' = Append(evlog, LogEntry("A", response))
             ELSE UNCHANGED <<text_output_queue, audio_output_queue, chat_buffer,
                              chat_session_active, current_dialog_id, evlog>>
          /\ pcResp' = "head"
       \/ /\ wsA = "broken"
          /\ \E mentionsConnection \in BOOLEAN :
                pcResp' = IF mentionsConnection THEN "done" ELSE "head"
          /\ UNCHANGED <<inboxA, text_output_queue, audio_output_queue,
                         chat_buffer, chat_session_active, current_dialog_id, evlog>>
    /\ UNCHANGED <<clientKind, pcA, pcAudio, audioChunk, wsA, wireA>>
    /\ UNCHANGED <<is_connected, is_session_active, stop_event, audio_input_queue>>
    /\ UNCHANGED <<codecVars, flowBVars, envVars, dialogVars>>

\* handle(), lines 331-345: a microphone chunk of at least 10 bytes is queued
A_PutAudio ==
    /\ pcA # "off"
    /\ chunksPut < MaxChunks
    /\ audio_input_queue' = Append(audio_input_queue, <<chunksPut + 1>>)
    /\ chunksPut' = chunksPut + 1
    /\ UNCHANGED <<srvSent, extVars>>
    /\ UNCHANGED <<current_dialog_id, is_connected, is_session_active, stop_event,
                   audio_output_queue, text_output_queue, chat_buffer,
                   chat_session_active, evlog>>
    /\ UNCHANGED <<codecVars, flowAVars, flowBVars, dialogVars>>

\* destroy_context(), lines 372-385: set the stop event, empty the input queue
A_DestroyContext ==
    /\ pcA # "off"
    /\ ~stop_event
    /\ stop_event' = TRUE
    /\ audio_input_queue' = <<>>
    /\ UNCHANGED <<current_dialog_id, is_connected, is_session_active,
                   audio_output_queue, text_output_queue, chat_buffer,
                   chat_session_active, evlog>>
    /\ UNCHANGED <<codecVars, flowAVars, flowBVars, envVars, dialogVars>>

\* the server sends a frame on the connection of flow A
A_ServerSend ==
    /\ wsA = "open"
    /\ inboxA = <<>>
    /\ srvSent < MaxServerFrames
    /\ \E f \in SrvFrames : inboxA' = Append(inboxA, f)
    /\ srvSent' = srvSent + 1
    /\ UNCHANGED <<chunksPut, extVars>>
    /\ UNCHANGED <<clientKind, pcA, pcAudio, pcResp, audioChunk, wsA, wireA>>
    /\ UNCHANGED <<codecVars, ctxVars, flowBVars, dialogVars>>

\* the connection of flow A is lost
A_Drop ==
    /\ wsA = "open"
    /\ wsA' = "broken"
    /\ inboxA' = <<>>
    /\ UNCHANGED <<clientKind, pcA, pcAudio, pcResp, audioChunk, wireA>>
    /\ UNCHANGED <<codecVars, ctxVars, flowBVars, envVars, dialogVars>>

MainA  == A_Start \/ A_ConnAck \/ A_SessAck \/ A_Gather \/ A_FinishSession
            \/ A_FinishConnection \/ A_FinAck
AudioA == Au_Head \/ Au_Get \/ Au_Sent
RespA  == Ra_Head \/ Ra_Recv
EnvA   == A_PutAudio \/ A_DestroyContext \/ A_ServerSend \/ A_Drop

NextA == MainA \/ AudioA \/ RespA \/ EnvA

---------------------------------------------------------------------------
(* Flow B: handle() on recording_signal "stop" ->                          *)
(* _send_temp_file_and_wait_response on a file_client of its own           *)

InitB ==
    /\ IdleCodec /\ IdleHandler /\ InitCtx /\ IdleA /\ IdleEnv /\ IdleDialog
    /\ pcB = "start"
    /\ pcSilence = "off"
    /\ pcRespB = "off"
    /\ session_finished_event = FALSE
    /\ fileLeft = 0
    /\ wsB = "none"
    /\ wireB = <<>>
    /\ inboxB = <<>>
    /\ runsB = 0
    /\ received_responses = <<>>

\* the wav file of a turn: unreadable (-1) or 0..MaxChunks chunks
Files == -1 .. MaxChunks

\* lines 739-748 and connect() lines 22-45: a new client, a new event, a new
\* socket; send StartConnection.  An exception goes to the handler at 888.
B_Start ==
    /\ pcB = "start"
    /\ runsB < MaxRunsB
    /\ session_finished_event' = FALSE
    /\ received_responses' = <<>>
    /\ inboxB' = <<>>
    /\ pcSilence' = "off"
    /\ pcRespB' = "off"
    /\ \E f \in Files : fileLeft' = f
    /\ \/ /\ wsB' = "none"                          \* websockets.connect raises
          /\ wireB' = <<>>
          /\ pcB' = "done"
       \/ /\ wsB' = "open"
          /\ wireB' = <<Frame("StartConnection", <<>>, <<>>)>>
          /\ pcB' = "conn_ack"
    /\ UNCHANGED runsB
    /\ UNCHANGED <<codecVars, ctxVars, flowAVars, envVars, dialogVars>>

\* connect() lines 46-61
B_ConnAck ==
    /\ pcB = "conn_ack"
    /\ \/ /\ wsB = "open" /\ inboxB # <<>>
          /\ inboxB' = Tail(inboxB)
          /\ IF receive_server_response(Head(inboxB)).status = "ok"
             THEN /\ wireB' = Append(wireB, StartSessionFrame)
                  /\ pcB' = "sess_ack"
             ELSE /\ pcB' = "done"
                  /\ UNCHANGED wireB
       \/ /\ wsB = "broken"
          /\ pcB' = "done"
          /\ UNCHANGED <<wireB, inboxB>>
    /\ UNCHANGED <<pcSilence, pcRespB, session_finished_event, fileLeft, wsB,
                   runsB, received_responses>>
    /\ UNCHANGED <<codecVars, ctxVars, flowAVars, envVars, dialogVars>>

\* connect() lines 62-63 and lines 750-756: the StartSession response, then
\* start_session with file_client_config["start_session_req"]
B_SessAck ==
    /\ pcB = "sess_ack"
    /\ \/ /\ wsB = "open" /\ inboxB # <<>>
          /\ inboxB' = Tail(inboxB)
          /\ IF receive_server_response(Head(inboxB)).status = "ok"
             THEN /\ wireB' = client_start_session(wireB,
                                  BuildStartSessionReq(ConfigDialogId))
                  /\ pcB' = "file"
             ELSE /\ pcB' = "done"
                  /\ UNCHANGED wireB
       \/ /\ wsB = "broken"
          /\ pcB' = "done"
          /\ UNCHANGED <<wireB, inboxB>>
    /\ UNCHANGED <<pcSilence, pcRespB, session_finished_event, fileLeft, wsB,
                   runsB, received_responses>>
    /\ UNCHANGED <<codecVars, ctxVars, flowAVars, envVars, dialogVars>>

\* lines 760-784: read the file and send it chunk by chunk; an exception of
\* wave.open, readframes or the send is logged and the function returns
\* (line 784).  Lines 791-836: then the two tasks are created.
B_File ==
    /\ pcB = "file"
    /\ IF fileLeft = -1 \/ (fileLeft > 0 /\ wsB # "open")
       THEN /\ pcB' = "done"
            /\ UNCHANGED <<wireB, fileLeft, pcSilence, pcRespB>>
       ELSE IF fileLeft > 0
       THEN /\ wireB' = Append(wireB, AudioFrame(<<fileLeft>>))
            /\ fileLeft' = fileLeft - 1
            /\ UNCHANGED <<pcB, pcSilence, pcRespB>>
       ELSE /\ pcSilence' = "head"
            /\ pcRespB' = "head"
            /\ pcB' = "wait"
            /\ UNCHANGED <<wireB, fileLeft>>
    /\ UNCHANGED <<session_finished_event, wsB, inboxB, runsB, received_responses>>
    /\ UNCHANGED <<codecVars, ctxVars, flowAVars, envVars, dialogVars>>

\* silence chunks on a wire
SilenceSent(wire) ==
    Cardinality({i \in 1..Len(wire) : wire[i] = AudioFrame(SilenceData)})

\* send_silence_audio, lines 795-796: the loop condition, then enter the send
Si_Head ==
    /\ pcSilence = "head"
    /\ IF session_finished_event
       THEN /\ pcSilence' = "done"
            /\ UNCHANGED wireB
       ELSE IF wsB # "open"
       THEN /\ pcSilence' = "done"                  \* the send raises, line 798
            /\ UNCHANGED wireB
       ELSE /\ SilenceSent(wireB) < MaxChunks
            /\ wireB' = Append(wireB, AudioFrame(SilenceData))
            /\ pcSilence' = "sending"
    /\ UNCHANGED <<pcB, pcRespB, session_finished_event, fileLeft, wsB, inboxB,
                   runsB, received_responses>>
    /\ UNCHANGED <<codecVars, ctxVars, flowAVars, envVars, dialogVars>>

\* lines 796-797: the send returns (or raises), the task sleeps 10 ms
Si_Sent ==
    /\ pcSilence = "sending"
    /\ pcSilence' = IF wsB = "open" THEN "head" ELSE "done"
    /\ UNCHANGED <<pcB, pcRespB, session_finished_event, fileLeft, wsB, wireB,
                   inboxB, runsB, received_responses>>
    /\ UNCHANGED <<codecVars, ctxVars, flowAVars, envVars, dialogVars>>

\* handle_responses, line 808: the loop condition
Rb_Head ==
    /\ pcRespB = "head"
    /\ pcRespB' = IF session_finished_event THEN "done" ELSE "recv"
    /\ UNCHANGED <<pcB, pcSilence, session_finished_event, fileLeft, wsB, wireB,
                   inboxB, runsB, received_responses>>
    /\ UNCHANGED <<codecVars, ctxVars, flowAVars, envVars, dialogVars>>

\* lines 812-815: response["event"], and response["payload_msg"][0:100] for
\* event 352, evaluate without raising
LogsResponse(response) ==
    /\ "event" \in response.keys
    /\ response.event = 352 =>
          /\ "payload_msg" \in response.keys
          /\ response.payload_msg.t \in {"bytes", "str"}

\* lines 821-826: the events that end the turn
SessionEndEvents == {152, 153, 359}

\* _process_received_responses (lines 1204-1295), called by handle() after the
\* turn: both output queues are emptied; the entries _flush_chat_buffer queued
\* are str, so result.get raises when AVATAR_TEXT is an output and the text
\* queue held something, and the audio queue is then left as it is
process_received_responses(d, avatarTextIsOutput) ==
    [d EXCEPT !.text_output_queue = <<>>,
              !.audio_output_queue =
                  IF d.text_output_queue # <<>> /\ avatarTextIsOutput
                  THEN @ ELSE <<>>]

\* lines 809-831: wait up to a second for a response, log it, dispatch it;
\* a session end event sets the event and ends the loop, any exception but
\* the timeout ends the loop
Rb_Recv ==
    /\ pcRespB = "recv"
    /\ \/ /\ wsB = "open" /\ inboxB # <<>>
          /\ inboxB' = Tail(inboxB)
          /\ LET response == receive_server_response(Head(inboxB)) IN
             IF response.status # "ok"
             THEN /\ pcRespB' = "done"
                  /\ UNCHANGED <<received_responses, session_finished_event,
                                 text_output_queue, audio_output_queue, chat_buffer,
                                 chat_session_active, current_dialog_id, evlog>>
             ELSE IF ~LogsResponse(response)
             THEN /\ received_responses' = Append(received_responses, -1)
                  /\ pcRespB' = "done"
                  /\ UNCHANGED <<session_finished_event,
                                 text_output_queue, audio_output_queue, chat_buffer,
                                 chat_session_active, current_dialog_id, evlog>>
             ELSE /\ received_responses' = Append(received_responses, response.event)
                  /\ Dispatched(parse_and_handle_response(DispatchState, response))
                  /\ evlog' = Append(evlog, LogEntry("B", response))
                  /\ session_finished_event' =
                        (session_finished_event \/ response.event \in SessionEndEvents)
                  /\ pcRespB' = IF response.event \in SessionEndEvents
                                THEN "done" ELSE "head"
       \/ /\ wsB = "open" /\ inboxB = <<>>          \* asyncio.TimeoutError
          /\ pcRespB' = "head"
          /\ UNCHANGED <<inboxB, received_responses, session_finished_event,
                         text_output_queue, audio_output_queue, chat_buffer,
                         chat_session_active, current_dialog_id, evlog>>
       \/ /\ wsB = "broken"
          /\ pcRespB' = "done"
          /\ UNCHANGED <<inboxB, received_responses, session_finished_event,
                         text_output_queue, audio_output_queue, chat_buffer,
                         chat_session_active, current_dialog_id, evlog>>
    /\ UNCHANGED <<pcB, pcSilence, fileLeft, wsB, wireB, runsB>>
    /\ UNCHANGED <<is_connected, is_session_active, stop_event, audio_input_queue>>
    /\ UNCHANGED <<codecVars, flowAVars, envVars, dialogVars>>

\* lines 838-854: the event is set or the 30 s wait times out; the finally
\* block sets the event and cancels the silence task
B_Wait ==
    /\ pcB = "wait"
    /\ session_finished_event' = TRUE
    /\ pcSilence' = "done"
    /\ pcB' = "cancel_resp"
    /\ UNCHANGED <<pcRespB, fileLeft, wsB, wireB, inboxB, runsB, received_responses>>
    /\ UNCHANGED <<codecVars, ctxVars, flowAVars, envVars, dialogVars>>

\* lines 856-862: cancel the response task and wait for it
B_CancelResponses ==
    /\ pcB = "cancel_resp"
    /\ pcRespB' = "done"
    /\ pcB' = "finish"
    /\ UNCHANGED <<pcSilence, session_finished_event, fileLeft, wsB, wireB, inboxB,
                   runsB, received_responses>>
    /\ UNCHANGED <<codecVars, ctxVars, flowAVars, envVars, dialogVars>>

\* lines 864-877: log the collected responses (response["event"] raises for
\* one without the key), then finish_session; an exception goes to line 888
B_FinishSession ==
    /\ pcB = "finish"
    /\ IF (\E i \in 1..Len(received_responses) : received_responses[i] = -1)
          \/ wsB # "open"
       THEN /\ pcB' = "done"
            /\ UNCHANGED wireB
       ELSE /\ wireB' = Append(wireB, Frame("FinishSession", <<>>, <<>>))
            /\ pcB' = "fin_conn"
    /\ UNCHANGED <<pcSilence, pcRespB, session_finished_event, fileLeft, wsB,
                   inboxB, runsB, received_responses>>
    /\ UNCHANGED <<codecVars, ctxVars, flowAVars, envVars, dialogVars>>

\* lines 879-884 and finish_connection() lines 159-166
B_FinishConnection ==
    /\ pcB = "fin_conn"
    /\ IF wsB = "open"
       THEN /\ wireB' = Append(wireB, Frame("FinishConnection", <<>>, <<>>))
            /\ pcB' = "fin_ack"
       ELSE /\ pcB' = "done"
            /\ UNCHANGED wireB
    /\ UNCHANGED <<pcSilence, pcRespB, session_finished_event, fileLeft, wsB,
                   inboxB, runsB, received_responses>>
    /\ UNCHANGED <<codecVars, ctxVars, flowAVars, envVars, dialogVars>>

\* finish_connection() lines 167-168: the response is received and parsed
B_FinAck ==
    /\ pcB = "fin_ack"
    /\ \/ /\ wsB = "open" /\ inboxB # <<>>
          /\ inboxB' = Tail(inboxB)
       \/ /\ wsB = "broken"
          /\ UNCHANGED inboxB
    /\ pcB' = "done"
    /\ UNCHANGED <<pcSilence, pcRespB, session_finished_event, fileLeft, wsB,
                   wireB, runsB, received_responses>>
    /\ UNCHANGED <<codecVars, ctxVars, flowAVars, envVars, dialogVars>>

\* handle() lines 321-328: after the turn the output queues are processed and
\* the stop event is set
B_Return ==
    /\ pcB = "done"
    /\ \E avatarTextIsOutput \in BOOLEAN :
          Dispatched(process_received_responses(DispatchState, avatarTextIsOutput))
    /\ stop_event' = TRUE
    /\ runsB' = runsB + 1
    /\ pcB' = "start"
    /\ UNCHANGED <<pcSilence, pcRespB, session_finished_event, fileLeft, wsB,
                   wireB, inboxB, received_responses>>
    /\ UNCHANGED <<is_connected, is_session_active, audio_input_queue, evlog>>
    /\ UNCHANGED <<codecVars, flowAVars, envVars, dialogVars>>

\* a turn is between its StartConnection and its return
InTurnB == pcB \notin {"off", "start", "done"}

\* the server sends a frame on the connection of the file turn
B_ServerSend ==
    /\ InTurnB
    /\ wsB = "open"
    /\ inboxB = <<>>
    /\ srvSent < MaxServerFrames
    /\ \E f \in SrvFrames : inboxB' = Append(inboxB, f)
    /\ srvSent' = srvSent + 1
    /\ UNCHANGED <<chunksPut, extVars>>
    /\ UNCHANGED <<pcB, pcSilence, pcRespB, session_finished_event, fileLeft,
                   wsB, wireB, runsB, received_responses>>
    /\ UNCHANGED <<codecVars, ctxVars, flowAVars, dialogVars>>

\* the connection of the file turn is lost
B_Drop ==
    /\ InTurnB
    /\ wsB = "open"
    /\ wsB' = "broken"
    /\ inboxB' = <<>>
    /\ UNCHANGED <<pcB, pcSilence, pcRespB, session_finished_event, fileLeft,
                   wireB, runsB, received_responses>>
    /\ UNCHANGED <<codecVars, ctxVars, flowAVars, envVars, dialogVars>>

NextB ==
    \/ B_Start \/ B_ConnAck \/ B_SessAck \/ B_File \/ B_Wait
    \/ B_CancelResponses \/ B_FinishSession \/ B_FinishConnection
    \/ B_FinAck \/ B_Return
    \/ Si_Head \/ Si_Sent
    \/ Rb_Head \/ Rb_Recv
    \/ B_ServerSend \/ B_Drop

---------------------------------------------------------------------------
(* Spec: a context running one of the two flows *)

Init == InitA \/ InitB

Next == NextA \/ NextB

Spec == Init /\ [][Next]_vars

---------------------------------------------------------------------------
(* Claims about the two flows *)

Kinds(wire, ks) == {i \in 1..Len(wire) : wire[i].kind \in ks}

SessionFrames == {"Hello", "ChatTextQuery", "ChatTTSText", "AudioChunk"}

LifecycleOrder(wire) ==
    /\ Kinds(wire, {"StartConnection"}) = (IF wire = <<>> THEN {} ELSE {1})
    /\ \A i \in Kinds(wire, SessionFrames) :
          \E j \in Kinds(wire, {"StartSession"}) : j < i
    /\ \A i \in Kinds(wire, {"FinishSession"}) :
          \A j \in Kinds(wire, {"AudioChunk"}) : j < i
    /\ \A i \in Kinds(wire, {"FinishConnection"}) :
          /\ \E j \in Kinds(wire, {"FinishSession"}) : j < i
          /\ i = Len(wire)

Finished(wire) ==
    \E i \in Kinds(wire, {"FinishSession"}) :
        \E j \in Kinds(wire, {"FinishConnection"}) : i < j

\* the positions of the file turn after its session was established
EstablishedB == {"file", "wait", "cancel_resp", "finish", "fin_conn", "fin_ack"}

\* C2: a flow whose session was established, and whose socket is still open
\* when it returns, has sent FinishSession and then FinishConnection.
C2_EstablishedSessionsAreFinished ==
    [][/\ (pcA # "done" /\ pcA' = "done" /\ is_connected /\ wsA' = "open")
             => Finished(wireA')
       /\ (pcB \in EstablishedB /\ pcB' = "done" /\ wsB' = "open")
             => Finished(wireB')]_vars

\* the step hands a new response to a receive loop
Receives == Len(evlog') = Len(evlog) + 1

SendsStartSession(wire, wire2) ==
    /\ Len(wire2) = Len(wire) + 1
    /\ wire2[Len(wire2)].kind = "StartSession"

\* C8: once a dialog_id has been taken from event 150, every StartSession
\* frame written afterwards carries it.
C8_StartSessionCarriesDialogId ==
    [][/\ (current_dialog_id # <<>> /\ SendsStartSession(wireA, wireA'))
             => wireA'[Len(wireA')].dialog_id = current_dialog_id
       /\ (current_dialog_id # <<>> /\ SendsStartSession(wireB, wireB'))
             => wireB'[Len(wireB')].dialog_id = current_dialog_id]_vars

\* the step takes frame f from the inbox at a receive loop's recv
ReceivesA(f) ==
    /\ pcResp = "recv" /\ wsA = "open" /\ wsA' = "open" /\ inboxA # <<>>
    /\ inboxA' = Tail(inboxA) /\ Head(inboxA) = f
ReceivesB(f) ==
    /\ pcRespB = "recv" /\ wsB = "open" /\ wsB' = "open" /\ inboxB # <<>>
    /\ inboxB' = Tail(inboxB) /\ Head(inboxB) = f

\* parse_response gets through the framing of f and fails decoding the payload
DecodeFails(f) == SrvParsed[f].status \in {"BadGzipFile", "JSONDecodeError"}

\* C17 (as claimed): when a receive loop takes a well-framed response whose
\* gzip or JSON decoding fails, nothing is dispatched and the loop goes on to
\* receive the next frame.
C17_DecodeFailureIsSkipped ==
    [][\A f \in {g \in SrvFrames : DecodeFails(g)} :
          /\ ReceivesA(f) => (pcResp' = "head" /\ evlog' = evlog)
          /\ ReceivesB(f) => (pcRespB' = "head" /\ evlog' = evlog)]_vars

\* the event codes _parse_and_handle_response has a branch for
KnownEvents == {150, 152, 153, 350, 352, 450, 451, 550}

\* f parses, and carries no event code or one no branch handles
UnknownEvent(f) ==
    /\ SrvParsed[f].status = "ok"
    /\ "event" \in SrvParsed[f].keys => SrvParsed[f].event \notin KnownEvents

\* C18 (as claimed): a response with an unknown event code, or with none
\* (a server error response), does not end the receive loop and leaves the
\* chat buffer, the chat-session flag and the output queues as they were.
C18_UnknownEventIsIgnored ==
    [][\A f \in {g \in SrvFrames : UnknownEvent(g)} :
          /\ ReceivesA(f) => pcResp' = "head"
          /\ ReceivesB(f) => pcRespB' = "head"
          /\ (ReceivesA(f) \/ ReceivesB(f)) =>
                UNCHANGED <<chat_buffer, chat_session_active, text_output_queue,
                            audio_output_queue>>]_vars

\* C20 (as claimed): when a connection lifecycle has ended after its
\* FinishConnection, the socket is closed, both loops have stopped, and
\* is_connected and is_session_active are false.
C20_LifecycleEndsClosed ==
    /\ (pcA = "done" /\ Kinds(wireA, {"FinishConnection"}) # {}) =>
          /\ wsA = "closed"
          /\ pcAudio = "done" /\ pcResp = "done"
          /\ ~is_connected /\ ~is_session_active
    /\ (pcB = "done" /\ Kinds(wireB, {"FinishConnection"}) # {}) =>
          /\ wsB = "closed"
          /\ pcSilence = "done" /\ pcRespB = "done"

---------------------------------------------------------------------------
(* FairSpecA: flow A under the scheduling of the event loop, which runs    *)
(* every task that is ready; the server, the microphone and the stop       *)
(* signal are under no obligation                                          *)

FairSpecA ==
    /\ InitA /\ [][NextA]_vars
    /\ WF_vars(MainA) /\ WF_vars(AudioA) /\ WF_vars(RespA)

C21_ConnectIsBounded ==
    (pcA = "conn_ack") ~> (pcA \notin {"conn_ack", "sess_ack"})

\* C32 (as claimed): at most one open connection exists for a session id: a
\* file turn opens its connection, made for context.session_id, only when
\* no connection made earlier for that session id is still open.
C32_OneOpenConnectionPerSession ==
    [][(pcB = "start" /\ pcB' = "conn_ack" /\ wsB' = "open")
          => wsB # "open"]_vars

\* the step writes an AudioChunk frame to the socket of flow A
WritesAudioChunk ==
    /\ Len(wireA') = Len(wireA) + 1
    /\ wireA'[Len(wireA')].kind = "AudioChunk"

\* C31: after the stop event is set the audio loop sends at most one further
\* AudioChunk before it exits: a frame is written then only by the pass of
\* the loop that was already past its test of the stop event, and the loop
\* starts no further pass, whatever the queue holds.
C31_AtMostOneSendAfterStop ==
    [][stop_event =>
         /\ WritesAudioChunk => pcAudio = "get"
         /\ pcAudio # "get" => pcAudio' # "get"]_vars

\* the first chunk was discarded by destroy_context; the second, put after
\* the stop event was set, has been sent by the pass in flight and the loop
\* has exited
C31_Witness ==
    /\ stop_event
    /\ pcAudio = "done"
    /\ chunksPut = 2
    /\ \E i \in 1..Len(wireA) : wireA[i] = AudioFrame(<<2>>)
    /\ \A i \in 1..Len(wireA) : wireA[i] # AudioFrame(<<1>>)

\* the chunks of the AudioChunk frames on the socket of flow A, in the
\* order they were written; handle() line 344 numbers the chunks it puts
SentChunks == [i \in 1..Len(wireA) |-> IF wireA[i].kind = "AudioChunk"
                                       THEN wireA[i].data[1] ELSE 0]

\* C22: the AudioChunk frames are written in the order their chunks were
\* put on the audio input queue: a chunk put later is never written before
\* a chunk put earlier, and no chunk is written twice.
C22_AudioOrderPreserved ==
    \A i, j \in Kinds(wireA, {"AudioChunk"}) :
        i < j => /\ SentChunks[i] < SentChunks[j]
                 /\ SentChunks[j] <= chunksPut

\* two chunks were put on the queue and both have been written
C22_Witness ==
    /\ Cardinality(Kinds(wireA, {"AudioChunk"})) = 2
    /\ chunksPut = 2
    /\ pcAudio = "head"

---------------------------------------------------------------------------
(* SpecDialog: audio_processor.py, a DialogSession and the coroutines an   *)
(* application runs on it.  dsTasks gives each task's position: the        *)
(* response handler (resp), a send_text_message call (text), a             *)
(* process_audio_file call (file) and the stop_session call (stop).        *)

InitDialog ==
    /\ IdleCodec /\ IdleHandler /\ InitCtx /\ IdleA /\ IdleB /\ IdleEnv
    /\ dsPc = "new"
    /\ dsRunning = FALSE
    /\ dsRecording = FALSE
    /\ dsTasks = [resp |-> "off", text |-> "idle", file |-> "idle", stop |-> "idle"]
    /\ dsWs = "none"
    /\ dsWire = <<>>
    /\ dsMic = 0

\* the tasks that are inside a ws.send
InSend == {t \in DOMAIN dsTasks : dsTasks[t] = "sending"}

\* a response the server sends, parsed without an exception
AckOK(f) == dsWs = "open" /\ receive_server_response(f).status = "ok"

\* start_session lines 131-132 and connect() lines 22-45
Ds_Connect ==
    /\ dsPc = "new"
    /\ \/ /\ dsPc' = "failed"                        \* websockets.connect raises
          /\ UNCHANGED <<dsWs, dsWire>>
       \/ /\ dsWs' = "open"
          /\ dsWire' = <<Frame("StartConnection", <<>>, <<>>)>>
          /\ dsPc' = "conn_ack"
    /\ UNCHANGED <<dsRunning, dsRecording, dsTasks, dsMic>>
    /\ UNCHANGED <<codecVars, ctxVars, flowAVars, flowBVars, envVars>>

\* connect() lines 46-61
Ds_ConnAck ==
    /\ dsPc = "conn_ack"
    /\ \E f \in SrvFrames :
          IF AckOK(f)
          THEN /\ dsWire' = Append(dsWire, StartSessionFrame)
               /\ dsPc' = "sess_ack"
          ELSE /\ dsPc' = "failed"
               /\ UNCHANGED dsWire
    /\ UNCHANGED <<dsRunning, dsRecording, dsTasks, dsWs, dsMic>>
    /\ UNCHANGED <<codecVars, ctxVars, flowAVars, flowBVars, envVars>>

\* connect() lines 62-63, start_session lines 134-142: start_session of the
\* client, say_hello, is_running, the response handler task
Ds_SessAck ==
    /\ dsPc = "sess_ack"
    /\ \E f \in SrvFrames :
          IF AckOK(f)
          THEN /\ dsWire' = Append(client_start_session(dsWire,
                                      BuildStartSessionReq(ConfigDialogId)),
                                   Frame("Hello", <<>>, <<>>))
               /\ dsRunning' = TRUE
               /\ dsTasks' = [dsTasks EXCEPT !.resp = "run"]
               /\ dsPc' = "running"
          ELSE /\ dsPc' = "failed"
               /\ UNCHANGED <<dsWire, dsRunning, dsTasks>>
    /\ UNCHANGED <<dsRecording, dsWs, dsMic>>
    /\ UNCHANGED <<codecVars, ctxVars, flowAVars, flowBVars, envVars>>

\* _handle_server_responses lines 209-241: a response with none of the keys
\* "audio", "text", "content" is dropped; an exception ends the task
Ds_Response ==
    /\ dsTasks.resp = "run"
    /\ \E f \in SrvFrames :
          dsTasks' = [dsTasks EXCEPT !.resp =
                         IF dsRunning /\ AckOK(f) THEN "run" ELSE "done"]
    /\ UNCHANGED <<dsPc, dsRunning, dsRecording, dsWs, dsWire, dsMic>>
    /\ UNCHANGED <<codecVars, ctxVars, flowAVars, flowBVars, envVars>>

\* send_text_message line 187 and send_text_query lines 89-102: enter ws.send
Ds_TextBegin ==
    /\ dsPc \in {"running", "fin_sess", "fin_conn"}
    /\ dsWs = "open"
    /\ dsTasks.text = "idle"
    /\ Cardinality(Kinds(dsWire, {"ChatTextQuery"})) < MaxChunks
    /\ dsWire' = Append(dsWire, Frame("ChatTextQuery", <<>>, <<>>))
    /\ dsTasks' = [dsTasks EXCEPT !.text = "sending"]
    /\ UNCHANGED <<dsPc, dsRunning, dsRecording, dsWs, dsMic>>
    /\ UNCHANGED <<codecVars, ctxVars, flowAVars, flowBVars, envVars>>

\* the send of the text query returns or raises
Ds_TextEnd ==
    /\ dsTasks.text = "sending"
    /\ dsTasks' = [dsTasks EXCEPT !.text = "idle"]
    /\ UNCHANGED <<dsPc, dsRunning, dsRecording, dsWs, dsWire, dsMic>>
    /\ UNCHANGED <<codecVars, ctxVars, flowAVars, flowBVars, envVars>>

\* process_audio_file lines 199-201: enter ws.send with the next chunk
Ds_FileBegin ==
    /\ dsPc \in {"running", "fin_sess", "fin_conn"}
    /\ dsWs = "open"
    /\ dsTasks.file = "idle"
    /\ Cardinality(Kinds(dsWire, {"AudioChunk"})) < MaxChunks
    /\ dsWire' = Append(dsWire, AudioFrame(<<1>>))
    /\ dsTasks' = [dsTasks EXCEPT !.file = "sending"]
    /\ UNCHANGED <<dsPc, dsRunning, dsRecording, dsWs, dsMic>>
    /\ UNCHANGED <<codecVars, ctxVars, flowAVars, flowBVars, envVars>>

\* line 202: the send returns (then a 10 ms sleep) or raises
Ds_FileEnd ==
    /\ dsTasks.file = "sending"
    /\ dsTasks' = [dsTasks EXCEPT !.file = "idle"]
    /\ UNCHANGED <<dsPc, dsRunning, dsRecording, dsWs, dsWire, dsMic>>
    /\ UNCHANGED <<codecVars, ctxVars, flowAVars, flowBVars, envVars>>

\* start_microphone_input lines 173-179 and start_recording lines 27-47
Ds_StartMicrophone ==
    /\ dsPc = "running"
    /\ ~dsRecording
    /\ dsRecording' = TRUE
    /\ UNCHANGED <<dsPc, dsRunning, dsTasks, dsWs, dsWire, dsMic>>
    /\ UNCHANGED <<codecVars, ctxVars, flowAVars, flowBVars, envVars>>

\* audio_callback lines 31-34 calling on_audio_data lines 175-177 on the
\* thread of the audio library: asyncio.create_task finds no running event
\* loop there and raises RuntimeError, no task is created and nothing is sent
Ds_MicCallback ==
    /\ dsRecording
    /\ dsMic < MaxMic
    /\ dsMic' = dsMic + 1
    /\ UNCHANGED <<dsPc, dsRunning, dsRecording, dsTasks, dsWs, dsWire>>
    /\ UNCHANGED <<codecVars, ctxVars, flowAVars, flowBVars, envVars>>

\* stop_session lines 152-170 and disconnect() lines 178-182: clear
\* is_running, close the audio manager, cancel the response handler, enter
\* the send of finish_session
Ds_Stop ==
    /\ dsPc = "running"
    /\ dsRunning' = FALSE
    /\ dsRecording' = FALSE
    /\ IF dsWs = "open"
       THEN /\ dsWire' = Append(dsWire, Frame("FinishSession", <<>>, <<>>))
            /\ dsTasks' = [dsTasks EXCEPT !.resp = "done", !.stop = "sending"]
            /\ dsPc' = "fin_sess"
       ELSE /\ dsTasks' = [dsTasks EXCEPT !.resp = "done"]
            /\ dsPc' = "failed"
            /\ UNCHANGED dsWire
    /\ UNCHANGED <<dsWs, dsMic>>
    /\ UNCHANGED <<codecVars, ctxVars, flowAVars, flowBVars, envVars>>

\* finish_session returns; finish_connection() lines 159-166 enters its send
Ds_FinishConnection ==
    /\ dsPc = "fin_sess"
    /\ IF dsWs = "open"
       THEN /\ dsWire' = Append(dsWire, Frame("FinishConnection", <<>>, <<>>))
            /\ dsPc' = "fin_conn"
            /\ UNCHANGED dsTasks
       ELSE /\ dsTasks' = [dsTasks EXCEPT !.stop = "idle"]
            /\ dsPc' = "failed"
            /\ UNCHANGED dsWire
    /\ UNCHANGED <<dsRunning, dsRecording, dsWs, dsMic>>
    /\ UNCHANGED <<codecVars, ctxVars, flowAVars, flowBVars, envVars>>

\* finish_connection() lines 167-168 and close() lines 170-175: the send
\* returns, the response is parsed, the socket is closed unless that raised
Ds_FinAck ==
    /\ dsPc = "fin_conn"
    /\ dsTasks' = [dsTasks EXCEPT !.stop = "idle"]
    /\ \E f \in SrvFrames :
          IF AckOK(f)
          THEN dsWs' = "closed" /\ dsPc' = "stopped"
          ELSE dsPc' = "failed" /\ UNCHANGED dsWs
    /\ UNCHANGED <<dsRunning, dsRecording, dsWire, dsMic>>
    /\ UNCHANGED <<codecVars, ctxVars, flowAVars, flowBVars, envVars>>

\* the connection of the DialogSession is lost
Ds_Drop ==
    /\ dsWs = "open"
    /\ dsWs' = "broken"
    /\ UNCHANGED <<dsPc, dsRunning, dsRecording, dsTasks, dsWire, dsMic>>
    /\ UNCHANGED <<codecVars, ctxVars, flowAVars, flowBVars, envVars>>

NextDialog ==
    \/ Ds_Connect \/ Ds_ConnAck \/ Ds_SessAck \/ Ds_Response
    \/ Ds_TextBegin \/ Ds_TextEnd \/ Ds_FileBegin \/ Ds_FileEnd
    \/ Ds_StartMicrophone \/ Ds_MicCallback
    \/ Ds_Stop \/ Ds_FinishConnection \/ Ds_FinAck \/ Ds_Drop

SpecDialog == InitDialog /\ [][NextDialog]_vars

\* C4: at any moment at most one task is inside a send on the socket.
C4_OneTaskInsideSend == Cardinality(InSend) <= 1

---------------------------------------------------------------------------
(* SpecHandler: the message builders of volcengine_client.py and           *)
(* protocol_handler.py applied to bounded arguments, the keepalive test,   *)
(* and SessionManager.create_session / send_keepalive for one session_id.  *)
(* Times are whole seconds.                                                *)

MaxAudioCalls == 3
MaxTime == 64

\* is_keepalive_needed's default keepalive_interval (protocol_handler.py 323)
DefaultKeepaliveInterval == 30

\* ---- volcengine_client.py: the request each method writes ----

ClientKindsBuilt ==
    {"StartConnection", "StartSession", "Hello", "ChatTextQuery", "ChatTTSText",
     "AudioChunk", "FinishSession", "FinishConnection"}

\* the event code each request carries
ClientEvent(kind) ==
    CASE kind = "StartConnection" -> 1    [] kind = "FinishConnection" -> 2
      [] kind = "StartSession" -> 100     [] kind = "FinishSession" -> 102
      [] kind = "AudioChunk" -> 200       [] kind = "Hello" -> 300
      [] kind = "ChatTTSText" -> 500      [] OTHER -> 501

\* the bytes handed to gzip.compress: "{}", json.dumps of the request's
\* dict, or the audio itself
ClientPayload(kind, arg) ==
    CASE kind \in {"StartConnection", "FinishSession", "FinishConnection"}
           -> JsonDumps(DictVal("", <<>>))
      [] kind \in {"Hello", "ChatTextQuery"} -> JsonDumps(DictVal("content", arg))
      [] kind \in {"StartSession", "ChatTTSText"} -> JsonDumps(DictVal("other", arg))
      [] OTHER -> arg

\* str.encode(s) of one character, given as its code point (below 65536)
Utf8(c) ==
    IF c < 128 THEN <<c>>
    ELSE IF c < 2048 THEN <<192 + (c \div 64), 128 + (c % 64)>>
    ELSE <<224 + (c \div 4096), 128 + ((c \div 64) % 64), 128 + (c % 64)>>

\* str.encode(s): the UTF-8 bytes of a str, given as its code points
RECURSIVE StrEncode(_)
StrEncode(s) == IF s = <<>> THEN <<>> ELSE Utf8(Head(s)) \o StrEncode(Tail(s))

\* the session ids a client is constructed with (line 17): "s", "", "e"
\* with an acute accent, a CJK character, and "s" followed by the accented "e"
SessionIds == {<<115>>, <<>>, <<233>>, <<20013>>, <<115, 233>>}

\* header, event, [session id section], len(payload_bytes), payload_bytes;
\* the session id section is len(self.session_id), the number of characters
\* of the str, and str.encode(self.session_id)
ClientRequest(session_id, kind, arg) ==
    LET header == IF kind = "AudioChunk"
                  THEN generate_header(PROTOCOL_VERSION, CLIENT_AUDIO_ONLY_REQUEST,
                                       MSG_WITH_EVENT, NO_SERIALIZATION, GZIP,
                                       0, <<>>).bytes
                  ELSE DefaultHeader
        payload_bytes == GzipCompress(ClientPayload(kind, arg))
    IN  header \o ToBytes4(ClientEvent(kind))
          \o (IF kind \in {"StartConnection", "FinishConnection"} THEN <<>>
              ELSE ToBytes4(Len(session_id)) \o StrEncode(session_id))
          \o ToBytes4(Len(payload_bytes)) \o payload_bytes

\* ---- protocol_handler.py: ProtocolHandler ----

\* the call corrected: the keywords are bound to generate_header's parameters
generate_header_kw_Accepted(msg_type, msg_serialization, msg_compression, reserved) ==
    generate_header(PROTOCOL_VERSION, msg_type, MSG_WITH_EVENT, msg_serialization,
                    msg_compression, reserved, <<>>)

\* generate_header(msg_type=, msg_serialization=, msg_compression=, reserved=)
\* (lines 152-157, 276-281): generate_header has no parameter of these names
\* (protocol_parser.py 59-67), so the call raises TypeError
generate_header_kw(msg_type, msg_serialization, msg_compression, reserved) ==
    [err |-> "TypeError", bytes |-> <<>>]

\* {"type": type, "data": data} as a one-entry object
Message(type, data) == DictVal("other", <<type>> \o data)

\* _encode_message, lines 252-287
encode_message(h, message, msg_type) ==
    IF h.use_protobuf THEN [err |-> "NotImplementedError", bytes |-> <<>>]
    ELSE LET serialized == JsonDumps(message)
             payload == IF h.use_compression THEN GzipCompress(serialized)
                        ELSE serialized
             header  == generate_header_kw(msg_type, h.serialization,
                                           h.compression, 0)
         IN  IF header.err # "none" THEN [err |-> header.err, bytes |-> <<>>]
             ELSE [err |-> "none", bytes |-> header.bytes \o payload]

\* create_start_connection_message ... create_task_request_message (lines
\* 33-138), create_finish_session_message, create_finish_connection_message
\* (170-194): each hands its dict to _encode_message
ControlTypes == 1..8
create_control_message(h, type, data) ==
    encode_message(h, Message(type, data), CLIENT_FULL_REQUEST)

\* create_audio_message, lines 140-168
create_audio_message(h, audio_data, sequence_id) ==
    LET header == generate_header_kw(CLIENT_AUDIO_ONLY_REQUEST, h.serialization,
                                     h.compression, sequence_id)
    IN  IF header.err # "none" THEN [err |-> header.err, bytes |-> <<>>]
        ELSE [err |-> "none",
              bytes |-> header.bytes \o (IF h.use_compression
                                         THEN GzipCompress(audio_data)
                                         ELSE audio_data)]

\* create_keepalive_message, lines 311-320: silence, sequence_id defaulted
create_keepalive_message(h) == create_audio_message(h, SilenceData, 0)

\* the subtraction reversed
is_keepalive_needed_Reversed(last_activity_time, current_time, keepalive_interval) ==
    (last_activity_time - current_time) >= keepalive_interval

\* is_keepalive_needed, lines 322-335
is_keepalive_needed(last_activity_time, current_time, keepalive_interval) ==
    (current_time - last_activity_time) >= keepalive_interval

\* ---- session_manager.py: SessionManager, for one session_id ----

MaxKeepaliveCalls == 3

\* VolcEngineRealtimeClient(uri=..., headers=...) (lines 95-98): __init__
\* takes config and session_id (volcengine_client.py 12), so it raises
ClientConstructor == [err |-> "TypeError"]

\* session.send_raw_message(keepalive_msg) (line 435): DialogSession
\* (audio_processor.py 100-241) has no such method
send_raw_message(msg) == [err |-> "AttributeError", success |-> FALSE]

\* send_keepalive, lines 408-447; any exception is caught and gives False
send_keepalive(registered, last, current_time, h) ==
    LET nothing(ret) == [ret |-> ret, sent |-> <<>>, last |-> last] IN
    IF ~registered THEN nothing("False")
    ELSE IF is_keepalive_needed(IF last = -1 THEN 0 ELSE last, current_time,
                                DefaultKeepaliveInterval)
    THEN LET keepalive_msg == create_keepalive_message(h)
             r == send_raw_message(keepalive_msg.bytes)
         IN  IF keepalive_msg.err # "none" \/ r.err # "none" THEN nothing("False")
             ELSE IF r.success
                  THEN [ret |-> "True", sent |-> <<keepalive_msg.bytes>>,
                        last |-> current_time]
                  ELSE nothing("False")
    ELSE nothing("True")

\* ---- the specification ----

BuildArgs == {<<>>, <<72, 105>>}
AudioArgs == {<<>>, <<1, 2>>, SilenceData}

InitHandler ==
    /\ bldPc \in {"build", "test", "manager"}
    /\ phCfg \in {ProtocolHandler(c, b) : c \in BOOLEAN, b \in BOOLEAN}
    /\ bldPc # "build" => phCfg = ProtocolHandler(TRUE, FALSE)
    /\ IF bldPc = "test"
       THEN kaOut \in [last : {0, 7}, cur : 0..MaxTime,
                       interval : {1, DefaultKeepaliveInterval}, needed : {"none"}]
       ELSE kaOut = NoKeepaliveTest
    /\ smRegistered = FALSE
    /\ smCreatedAt = -1
    /\ bldCall = NoCall
    /\ bldOut = [err |-> "none", bytes |-> <<>>]
    /\ audioCalls = 0
    /\ last_activity = -1
    /\ now = 0
    /\ smSent = <<>>
    /\ smRet = <<>>
    /\ IdleCodec /\ InitCtx /\ IdleA /\ IdleB /\ IdleEnv /\ IdleDialog

HandlerIdle ==
    UNCHANGED <<hdrIn, hdrBytes, hdrOut, parseIn, parseOut, codecPc, errIn,
                ctxVars, flowAVars, flowBVars, envVars, dialogVars>>

\* chat_tts_text without the test of line 105
chat_tts_text_Unguarded(session_id, is_user_querying, content) ==
    [err |-> "none", bytes |-> ClientRequest(session_id, "ChatTTSText", content)]

\* chat_tts_text (volcengine_client.py lines 104-123): the frame handed to
\* ws.send, <<>> when the method returns at line 106 without sending
chat_tts_text(session_id, is_user_querying, content) ==
    IF is_user_querying
    THEN [err |-> "none", bytes |-> <<>>]
    ELSE [err |-> "none", bytes |-> ClientRequest(session_id, "ChatTTSText", content)]

\* a method of VolcEngineRealtimeClient builds its request (and sends it)
ClientBuild ==
    /\ bldPc = "build"
    /\ \E kind \in ClientKindsBuilt, arg \in BuildArgs \cup AudioArgs,
          is_user_querying \in BOOLEAN, session_id \in SessionIds :
          /\ kind = "AudioChunk" => arg \in AudioArgs /\ audioCalls < MaxAudioCalls
          /\ kind # "AudioChunk" => arg \in BuildArgs
          /\ kind \in {"StartConnection", "FinishSession", "FinishConnection"}
                => arg = <<>>
          /\ kind # "ChatTTSText" => ~is_user_querying
          /\ bldCall' = [by |-> "client", builder |-> kind, arg |-> arg,
                         is_user_querying |-> is_user_querying,
                         session_id |-> session_id]
          /\ bldOut' = IF kind = "ChatTTSText"
                       THEN chat_tts_text(session_id, is_user_querying, arg)
                       ELSE [err |-> "none",
                             bytes |-> ClientRequest(session_id, kind, arg)]
          /\ audioCalls' = IF kind = "AudioChunk" THEN audioCalls + 1 ELSE audioCalls
    /\ UNCHANGED <<phCfg, bldPc, kaOut, smRegistered, smCreatedAt, last_activity,
                   now, smSent, smRet>>
    /\ HandlerIdle

\* one of the create_*_message methods that go through _encode_message
HandlerBuildControl ==
    /\ bldPc = "build"
    /\ \E type \in ControlTypes, data \in BuildArgs :
          /\ bldCall' = [by |-> "handler", builder |-> "create_control_message",
                         arg |-> data]
          /\ bldOut' = create_control_message(phCfg, type, data)
    /\ UNCHANGED <<phCfg, bldPc, kaOut, smRegistered, smCreatedAt, audioCalls,
                   last_activity, now, smSent, smRet>>
    /\ HandlerIdle

\* create_audio_message(audio_data), sequence_id defaulted as in line 320
HandlerBuildAudio ==
    /\ bldPc = "build"
    /\ audioCalls < MaxAudioCalls
    /\ \E audio \in AudioArgs :
          /\ bldCall' = [by |-> "handler", builder |-> "create_audio_message",
                         arg |-> audio]
          /\ bldOut' = create_audio_message(phCfg, audio, 0)
    /\ audioCalls' = audioCalls + 1
    /\ UNCHANGED <<phCfg, bldPc, kaOut, smRegistered, smCreatedAt, last_activity,
                   now, smSent, smRet>>
    /\ HandlerIdle

HandlerBuildKeepalive ==
    /\ bldPc = "build"
    /\ audioCalls < MaxAudioCalls
    /\ bldCall' = [by |-> "handler", builder |-> "create_keepalive_message",
                   arg |-> SilenceData]
    /\ bldOut' = create_keepalive_message(phCfg)
    /\ audioCalls' = audioCalls + 1
    /\ UNCHANGED <<phCfg, bldPc, kaOut, smRegistered, smCreatedAt, last_activity,
                   now, smSent, smRet>>
    /\ HandlerIdle

\* is_keepalive_needed applied to the arguments drawn
KeepaliveTest ==
    /\ bldPc = "test"
    /\ kaOut.needed = "none"
    /\ kaOut' = [kaOut EXCEPT !.needed =
                    IF is_keepalive_needed(kaOut.last, kaOut.cur, kaOut.interval)
                    THEN "yes" ELSE "no"]
    /\ UNCHANGED <<phCfg, bldPc, smRegistered, smCreatedAt, bldCall, bldOut,
                   audioCalls, last_activity, now, smSent, smRet>>
    /\ HandlerIdle

\* create_session, lines 53-126: the handler is registered (line 92), the
\* client constructor raises, _cleanup_session (449-489) removes every entry
CreateSession ==
    /\ bldPc = "manager"
    /\ smCreatedAt = -1
    /\ smCreatedAt' = now
    /\ IF ClientConstructor.err # "none"
       THEN smRegistered' = FALSE /\ last_activity' = -1
       ELSE smRegistered' = TRUE /\ last_activity' = now      \* lines 116-118
    /\ UNCHANGED <<phCfg, bldPc, kaOut, bldCall, bldOut, audioCalls, now, smSent,
                   smRet>>
    /\ HandlerIdle

\* time passes
Tick ==
    /\ bldPc = "manager"
    /\ \E d \in {1, DefaultKeepaliveInterval - 1, DefaultKeepaliveInterval + 1} :
          /\ now + d <= MaxTime
          /\ now' = now + d
    /\ UNCHANGED <<phCfg, bldPc, kaOut, smRegistered, smCreatedAt, bldCall, bldOut,
                   audioCalls, last_activity, smSent, smRet>>
    /\ HandlerIdle

\* send_keepalive(session_id); smRet collects what the calls returned
SendKeepalive ==
    /\ bldPc = "manager"
    /\ Len(smRet) < MaxKeepaliveCalls
    /\ LET r == send_keepalive(smRegistered, last_activity, now, phCfg)
       IN  /\ smSent' = smSent \o r.sent
           /\ last_activity' = r.last
           /\ smRet' = Append(smRet, r.ret)
    /\ UNCHANGED <<phCfg, bldPc, kaOut, smRegistered, smCreatedAt, bldCall, bldOut,
                   audioCalls, now>>
    /\ HandlerIdle

NextHandler ==
    \/ ClientBuild \/ HandlerBuildControl \/ HandlerBuildAudio
    \/ HandlerBuildKeepalive \/ KeepaliveTest \/ CreateSession \/ Tick
    \/ SendKeepalive

SpecHandler == InitHandler /\ [][NextHandler]_vars

---------------------------------------------------------------------------
(* Claims about the message builders and the keepalive *)

\* the length field and the bytes after it in a frame a builder returned:
\* a client request has an event code and, but for StartConnection and
\* FinishConnection, a session id section before them
PayloadSection(call, frame) ==
    LET skip == IF call.by = "handler" THEN 4
                ELSE IF call.builder \in {"StartConnection", "FinishConnection"}
                     THEN 8
                     ELSE 12 + Len(StrEncode(call.session_id))
    IN  [declared |-> FromBytes(PySlice(frame, skip, skip + 4)),
         payload  |-> PyFrom(frame, skip + 4)]

AudioBuilders == {"AudioChunk", "create_audio_message", "create_keepalive_message"}

\* C12 (as claimed): in every frame a message builder produces, the payload is
\* preceded by a 4-byte length equal to the number of payload bytes after it;
\* a builder given an empty payload produces length 0 and no payload bytes.
C12_LengthPrecedesPayload ==
    (bldOut.err = "none" /\ bldOut.bytes # <<>>) =>
        LET sec == PayloadSection(bldCall, bldOut.bytes)
        IN  /\ sec.declared = Len(sec.payload)
            /\ (bldCall.builder \in AudioBuilders /\ bldCall.arg = <<>>)
                  => (sec.declared = 0 /\ sec.payload = <<>>)

\* C13: a ProtocolHandler configured for protobuf (THRIFT) answers every
\* message-building call, control, audio and keepalive, with an error and
\* returns no frame.
C13_ThriftIsRejected ==
    (phCfg.use_protobuf /\ bldCall.by = "handler") =>
        (bldOut.err # "none" /\ bldOut.bytes = <<>>)

C13_Witness ==
    /\ phCfg.use_protobuf
    /\ bldCall.builder = "create_keepalive_message"
    /\ bldOut.err = "TypeError"
    /\ audioCalls = 2

\* C14: is_keepalive_needed(last_activity, now, interval) is true whenever
\* now - last_activity is greater than interval and false whenever it is
\* smaller.
C14_KeepaliveNeeded ==
    kaOut.needed # "none" =>
        /\ (kaOut.cur - kaOut.last > kaOut.interval) => kaOut.needed = "yes"
        /\ (kaOut.cur - kaOut.last < kaOut.interval) => kaOut.needed = "no"

C14_Witness ==
    /\ kaOut.needed = "yes"
    /\ kaOut.interval = DefaultKeepaliveInterval
    /\ kaOut.cur = kaOut.last + DefaultKeepaliveInterval + 1

\* how long the session created at smCreatedAt has been idle
IdleTime == now - Max(smCreatedAt, last_activity)

\* C15 (as claimed): a send_keepalive call on a session idle for longer than
\* the keepalive interval sends one keepalive frame and resets the
\* last-activity time; on a session idle for less it sends nothing and
\* leaves the last-activity time unchanged.
C15_KeepaliveSentWhenIdle ==
    [][(Len(smRet') > Len(smRet) /\ smCreatedAt # -1) =>
          /\ IdleTime > DefaultKeepaliveInterval =>
                (Len(smSent') = Len(smSent) + 1 /\ last_activity' = now)
          /\ IdleTime < DefaultKeepaliveInterval =>
                (smSent' = smSent /\ last_activity' = last_activity)]_vars

\* C16 (as claimed): the n-th audio message built for a session carries
\* sequence id n mod 65536, in the header byte create_audio_message puts its
\* sequence_id in.
C16_SequenceIdsCount ==
    bldCall.builder \in AudioBuilders =>
        /\ bldOut.err = "none"
        /\ Len(bldOut.bytes) >= 4
        /\ bldOut.bytes[4] = audioCalls % 65536

\* C23: no ChatTTSText frame is sent while the user is speaking:
\* chat_tts_text called with is_user_querying true hands nothing to the
\* socket.
C23_NoTtsTextWhileQuerying ==
    (/\ bldCall.by = "client" /\ bldCall.builder = "ChatTTSText"
     /\ bldCall.is_user_querying)
        => bldOut.bytes = <<>>

\* chat_tts_text was called with a text while the user was speaking
C23_Witness ==
    /\ bldCall.by = "client" /\ bldCall.builder = "ChatTTSText"
    /\ bldCall.is_user_querying
    /\ bldCall.arg = <<72, 105>>
    /\ bldOut.bytes = <<>>

\* the requests that carry a session id section
SessionScoped ==
    {"StartSession", "Hello", "ChatTextQuery", "ChatTTSText", "AudioChunk",
     "FinishSession"}

\* C28 (as claimed): for every session id, each session-scoped client frame
\* writes a session-id length field equal to the number of session-id bytes
\* it writes after the field, the UTF-8 byte length of the id.
C28_SessionIdLengthIsByteLength ==
    (/\ bldCall.by = "client" /\ bldCall.builder \in SessionScoped
     /\ bldOut.bytes # <<>>) =>
        LET declared == FromBytes(PySlice(bldOut.bytes, 8, 12))
            written  == StrEncode(bldCall.session_id)
        IN  /\ PySlice(bldOut.bytes, 12, 12 + Len(written)) = written
            /\ declared = Len(written)

\* C30 (as claimed): the keepalive message is the AudioChunk message for
\* the silence bytes: an AUDIO_ONLY header with serialization NONE, event
\* 200, the session-id section and the length-prefixed gzip payload, the
\* frame send_audio_data writes for the same bytes.
C30_KeepaliveIsAudioChunk ==
    bldCall.builder = "create_keepalive_message" =>
        /\ bldOut.err = "none"
        /\ \E session_id \in SessionIds :
              bldOut.bytes = ClientRequest(session_id, "AudioChunk", SilenceData)

---------------------------------------------------------------------------
(* SpecOutput: realtime_handler_volcengine.py, the consumers of             *)
(* context.text_output_queue and context.audio_output_queue: the            *)
(* _output_loop thread start_context starts (lines 549-633) and             *)
(* _process_received_responses, which handle() calls after a file turn      *)
(* (lines 322-328, 1204-1295), with the dispatcher as the producer.         *)

MaxOutItems == 3        \* events the dispatcher handles in one run

\* the events whose handling puts an item on one of the two queues
OutFrames ==
    { JsonEvent(550, "content", <<72>>), AudioEvent(<<1, 2>>) }

InitOutput ==
    /\ IdleCodec /\ IdleHandler /\ InitCtx /\ IdleA /\ IdleB /\ IdleDialog
    /\ srvSent = 0 /\ chunksPut = 0
    /\ pcOut = "head"
    /\ pcDrain = "idle"
    /\ outTaken = <<>>
    /\ IdleMgr /\ IdleRec /\ IdleRtc

OutputIdle ==
    UNCHANGED <<codecVars, flowAVars, flowBVars, dialogVars, srvSent, chunksPut,
                mgrVars, recVars, rtcVars,
                current_dialog_id, is_connected, is_session_active,
                audio_input_queue, chat_buffer, chat_session_active>>

Taken(by, queue) == [by |-> by, queue |-> queue]

\* a receive loop hands an event to _parse_and_handle_response
O_Dispatch ==
    /\ Len(evlog) < MaxOutItems
    /\ \E f \in OutFrames :
         LET response == parse_response(Bin(f)) IN
         /\ Dispatched(parse_and_handle_response(DispatchState, response))
         /\ evlog' = Append(evlog, LogEntry("B", response))
    /\ UNCHANGED <<is_connected, is_session_active, stop_event, audio_input_queue>>
    /\ UNCHANGED <<codecVars, flowAVars, flowBVars, dialogVars, srvSent, chunksPut,
                   outVars, mgrVars, recVars, rtcVars>>

\* _output_loop line 555: the loop condition (after the sleep of line 625)
O_Head ==
    /\ pcOut = "head"
    /\ pcOut' = IF stop_event THEN "done" ELSE "text"
    /\ UNCHANGED <<pcDrain, outTaken, stop_event, text_output_queue,
                   audio_output_queue, evlog>>
    /\ OutputIdle

\* line 558: text_output_queue.empty()
O_TextTest ==
    /\ pcOut = "text"
    /\ pcOut' = IF text_output_queue # <<>> THEN "text_get" ELSE "audio"
    /\ UNCHANGED <<pcDrain, outTaken, stop_event, text_output_queue,
                   audio_output_queue, evlog>>
    /\ OutputIdle

\* lines 559-581: get_nowait() and hand the text on; queue.Empty is caught
\* by the handler of line 627, which ends the loop
O_TextGet ==
    /\ pcOut = "text_get"
    /\ IF text_output_queue = <<>>
       THEN /\ pcOut' = "done"
            /\ UNCHANGED <<text_output_queue, outTaken>>
       ELSE /\ text_output_queue' = Tail(text_output_queue)
            /\ outTaken' = Append(outTaken, Taken("output_loop", "text"))
            /\ pcOut' = "audio"
    /\ UNCHANGED <<pcDrain, stop_event, audio_output_queue, evlog>>
    /\ OutputIdle

\* line 588: audio_output_queue.empty()
O_AudioTest ==
    /\ pcOut = "audio"
    /\ pcOut' = IF audio_output_queue # <<>> THEN "audio_get" ELSE "head"
    /\ UNCHANGED <<pcDrain, outTaken, stop_event, text_output_queue,
                   audio_output_queue, evlog>>
    /\ OutputIdle

\* lines 589-618: get_nowait() and hand the audio on
O_AudioGet ==
    /\ pcOut = "audio_get"
    /\ IF audio_output_queue = <<>>
       THEN /\ pcOut' = "done"
            /\ UNCHANGED <<audio_output_queue, outTaken>>
       ELSE /\ audio_output_queue' = Tail(audio_output_queue)
            /\ outTaken' = Append(outTaken, Taken("output_loop", "audio"))
            /\ pcOut' = "head"
    /\ UNCHANGED <<pcDrain, stop_event, text_output_queue, evlog>>
    /\ OutputIdle

\* handle() line 322: the file turn has returned, the drain begins
D_Start ==
    /\ pcDrain = "idle"
    /\ pcDrain' = "text"
    /\ UNCHANGED <<pcOut, outTaken, stop_event, text_output_queue,
                   audio_output_queue, evlog>>
    /\ OutputIdle

\* line 1209: while not text_output_queue.empty()
D_TextTest ==
    /\ pcDrain = "text"
    /\ pcDrain' = IF text_output_queue # <<>> THEN "text_get" ELSE "text_out"
    /\ UNCHANGED <<pcOut, outTaken, stop_event, text_output_queue,
                   audio_output_queue, evlog>>
    /\ OutputIdle

\* lines 1210-1215: get_nowait(); queue.Empty ends the while
D_TextGet ==
    /\ pcDrain = "text_get"
    /\ IF text_output_queue = <<>>
       THEN /\ pcDrain' = "text_out"
            /\ UNCHANGED <<text_output_queue, outTaken>>
       ELSE /\ text_output_queue' = Tail(text_output_queue)
            /\ outTaken' = Append(outTaken, Taken("drain", "text"))
            /\ pcDrain' = "text"
    /\ UNCHANGED <<pcOut, stop_event, audio_output_queue, evlog>>
    /\ OutputIdle

\* lines 1218-1241: the texts taken are str, so result.get raises when
\* AVATAR_TEXT is an output and a text was taken; the handler of the function
\* then returns without a look at the audio queue
D_TextOut ==
    /\ pcDrain = "text_out"
    /\ \E avatarTextIsOutput \in BOOLEAN :
          pcDrain' = IF /\ avatarTextIsOutput
                        /\ \E i \in 1..Len(outTaken) : outTaken[i] = Taken("drain", "text")
                     THEN "set_stop" ELSE "audio"
    /\ UNCHANGED <<pcOut, outTaken, stop_event, text_output_queue,
                   audio_output_queue, evlog>>
    /\ OutputIdle

\* line 1245: while not audio_output_queue.empty()
D_AudioTest ==
    /\ pcDrain = "audio"
    /\ pcDrain' = IF audio_output_queue # <<>> THEN "audio_get" ELSE "set_stop"
    /\ UNCHANGED <<pcOut, outTaken, stop_event, text_output_queue,
                   audio_output_queue, evlog>>
    /\ OutputIdle

\* lines 1246-1251: get_nowait(); queue.Empty ends the while
D_AudioGet ==
    /\ pcDrain = "audio_get"
    /\ IF audio_output_queue = <<>>
       THEN /\ pcDrain' = "set_stop"
            /\ UNCHANGED <<audio_output_queue, outTaken>>
       ELSE /\ audio_output_queue' = Tail(audio_output_queue)
            /\ outTaken' = Append(outTaken, Taken("drain", "audio"))
            /\ pcDrain' = "audio"
    /\ UNCHANGED <<pcOut, stop_event, text_output_queue, evlog>>
    /\ OutputIdle

\* handle() line 328: the stop event is set
D_SetStop ==
    /\ pcDrain = "set_stop"
    /\ stop_event' = TRUE
    /\ pcDrain' = "done"
    /\ UNCHANGED <<pcOut, outTaken, text_output_queue, audio_output_queue, evlog>>
    /\ OutputIdle

NextOutput ==
    \/ O_Dispatch
    \/ O_Head \/ O_TextTest \/ O_TextGet \/ O_AudioTest \/ O_AudioGet
    \/ D_Start \/ D_TextTest \/ D_TextGet \/ D_TextOut \/ D_AudioTest
    \/ D_AudioGet \/ D_SetStop

SpecOutput == InitOutput /\ [][NextOutput]_vars

\* C33 (as claimed): each of the two output queues has a single consumer:
\* all the items taken from one queue were taken by the same consumer, and
\* the output loop and the drain of handle() are never both about to take
\* from the same queue.
C33_SingleConsumerPerQueue ==
    /\ \A i, j \in 1..Len(outTaken) :
          outTaken[i].queue = outTaken[j].queue => outTaken[i].by = outTaken[j].by
    /\ ~(pcOut = "text_get" /\ pcDrain = "text_get")
    /\ ~(pcOut = "audio_get" /\ pcDrain = "audio_get")

---------------------------------------------------------------------------
(* SpecManager: session_manager.py, one SessionManager and the calls made   *)
(* on it.  No method awaits before its work on the maps is done (the        *)
(* awaited collaborator calls are the last step or raise at once), so a     *)
(* call is one step.                                                        *)

MaxManagerCalls == 3    \* calls made on the manager in one run
ManagerIds == {"s1", "s2"}
Absent == "absent"      \* the key is not in the dict
NoTime == 0 - 1         \* the key is not in last_activity

\* lines 20-28: the six maps, empty
EmptyManager ==
    [sessions |-> {}, clients |-> {}, protocol_handlers |-> {},
     audio_managers |-> {},
     session_states |-> [k \in ManagerIds |-> Absent],
     last_activity |-> [k \in ManagerIds |-> NoTime]]

StateKeys(m) == {k \in ManagerIds : m.session_states[k] # Absent}
ActivityKeys(m) == {k \in ManagerIds : m.last_activity[k] # NoTime}

\* audio_processor.py 100-241: the methods DialogSession has
DialogSessionMethods ==
    {"set_callbacks", "start_session", "stop_session", "start_microphone_input",
     "stop_microphone_input", "send_text_message", "process_audio_file"}

\* DialogSession(client=..., audio_manager=..., config=...) (lines 102-106):
\* __init__ takes client and config (audio_processor.py 101), so it raises
DialogSessionConstructor == [err |-> "TypeError"]

\* the result of a manager call: the maps after it, what it returned and what
\* it had the client send
Returned(m, ret, sent) ==
    [m |-> m, ret |-> ret, sent |-> sent, raised |-> FALSE, at |-> m]

\* the result of a call in which an exception was raised and caught: at is
\* the maps as they were when it was raised
Raised(m, ret, at) ==
    [m |-> m, ret |-> ret, sent |-> <<>>, raised |-> TRUE, at |-> at]

\* _cleanup_session with the handler entry left in place
cleanup_session_KeepsHandler(m, session_id) ==
    [m EXCEPT !.sessions = @ \ {session_id},
              !.clients = @ \ {session_id},
              !.audio_managers = @ \ {session_id},
              !.session_states[session_id] = Absent,
              !.last_activity[session_id] = NoTime]

\* _cleanup_session, lines 449-489: client.close() (volcengine_client.py
\* 170-175) does nothing without a socket and AudioDeviceManager has no
\* cleanup method, so nothing raises and the id leaves all six maps
cleanup_session(m, session_id) ==
    [m EXCEPT !.sessions = @ \ {session_id},
              !.clients = @ \ {session_id},
              !.protocol_handlers = @ \ {session_id},
              !.audio_managers = @ \ {session_id},
              !.session_states[session_id] = Absent,
              !.last_activity[session_id] = NoTime]

\* create_session, lines 53-126; pyaudio_ok: pyaudio.PyAudio() of the
\* AudioDeviceManager constructor (audio_processor.py 19) did not raise
create_session(m, session_id, pyaudio_ok, t) ==
    LET raised(x) == Raised(cleanup_session(x, session_id), "False", x)
        m1 == [m EXCEPT !.audio_managers = @ \cup {session_id}]
        m2 == [m1 EXCEPT !.protocol_handlers = @ \cup {session_id}]
        m3 == [m2 EXCEPT !.clients = @ \cup {session_id}]
        m4 == [m3 EXCEPT !.sessions = @ \cup {session_id},
                         !.session_states[session_id] = "idle",
                         !.last_activity[session_id] = t]
    IN  IF session_id \in m.sessions THEN Returned(m, "False", <<>>)
        ELSE IF ~pyaudio_ok THEN raised(m)
        ELSE IF ClientConstructor.err # "none" THEN raised(m2)
        ELSE IF DialogSessionConstructor.err # "none" THEN raised(m3)
        ELSE Returned(m4, "True", <<>>)

\* start_session, lines 128-162: the state becomes 'connecting' whatever it
\* was (line 144); session.start() is no method of DialogSession, the
\* AttributeError is caught and the state becomes 'idle' (lines 159-162)
start_session(m, session_id, t) ==
    IF session_id \notin m.sessions THEN Returned(m, "False", <<>>)
    ELSE LET connecting == [m EXCEPT !.session_states[session_id] = "connecting"]
         IN  IF "start" \notin DialogSessionMethods
             THEN Raised([connecting EXCEPT !.session_states[session_id] = "idle"],
                        "False", connecting)
             ELSE Returned([connecting EXCEPT !.session_states[session_id] = "active",
                                             !.last_activity[session_id] = t],
                          "True", <<"start">>)

\* stop_session, lines 164-193: session.stop() is no method of DialogSession,
\* so an existing session stays 'closing' and is not cleaned up
stop_session(m, session_id) ==
    IF session_id \notin m.sessions THEN Returned(m, "True", <<>>)
    ELSE LET closing == [m EXCEPT !.session_states[session_id] = "closing"]
         IN  IF "stop" \notin DialogSessionMethods
             THEN Raised(closing, "False", closing)
             ELSE Returned(cleanup_session(closing, session_id), "True", <<"stop">>)

\* lines 207-213, 241-247, 280-286
Refused(m, session_id) ==
    \/ session_id \notin m.sessions
    \/ m.session_states[session_id] # "active"

\* what a send through a DialogSession method gives: the manager reads the
\* method's return value as success
SessionSend(m, session_id, method, t) ==
    IF method \notin DialogSessionMethods
    THEN Raised(m, "False", m)                         \* AttributeError
    ELSE Returned(m, "None", <<method>>)          \* the method returns None

\* send_audio, lines 195-225
send_audio(m, session_id, t) ==
    IF Refused(m, session_id) THEN Returned(m, "False", <<>>)
    ELSE SessionSend(m, session_id, "send_audio", t)

\* send_text with the activity time written before the tests
send_text_TouchesActivity(m, session_id, message_type, t) ==
    Returned([m EXCEPT !.last_activity[session_id] = t], "False", <<>>)

\* send_text, lines 227-266
send_text(m, session_id, message_type, t) ==
    IF Refused(m, session_id) THEN Returned(m, "False", <<>>)
    ELSE IF message_type = "ChatTextQuery"
    THEN SessionSend(m, session_id, "send_chat_text_query", t)
    ELSE IF message_type = "ChatTTSText"
    THEN SessionSend(m, session_id, "send_chat_tts_text", t)
    ELSE Returned(m, "False", <<>>)

\* process_audio_file, lines 268-298: DialogSession.process_audio_file
\* (audio_processor.py 189-207) returns None
process_audio_file(m, session_id, t) ==
    IF Refused(m, session_id) THEN Returned(m, "False", <<>>)
    ELSE SessionSend(m, session_id, "process_audio_file", t)

ManagerIdSeq == <<"s1", "s2">>

RECURSIVE StopAll(_, _, _)
\* stop_session for the ids of seq from position i on that are in ids
StopAll(m, ids, i) ==
    IF i > Len(ManagerIdSeq) THEN m
    ELSE StopAll(IF ManagerIdSeq[i] \in ids
                 THEN stop_session(m, ManagerIdSeq[i]).m ELSE m, ids, i + 1)

\* cleanup_inactive_sessions, lines 390-406
cleanup_inactive_sessions(m, timeout, t) ==
    LET inactive_sessions ==
            {k \in ActivityKeys(m) : t - m.last_activity[k] > timeout}
    IN  Returned(StopAll(m, inactive_sessions, 1), "None", <<>>)

\* shutdown, lines 491-509: every session is stopped, then the six maps are
\* cleared
shutdown(m) ==
    LET stopped == StopAll(m, m.sessions, 1)
    IN  Returned([stopped EXCEPT !.sessions = {}, !.clients = {},
                                 !.protocol_handlers = {}, !.audio_managers = {},
                                 !.session_states = [k \in ManagerIds |-> Absent],
                                 !.last_activity = [k \in ManagerIds |-> NoTime]],
                 "None", <<>>)

InitManager ==
    /\ IdleCodec /\ IdleHandler /\ InitCtx /\ IdleA /\ IdleB /\ IdleDialog
    /\ srvSent = 0 /\ chunksPut = 0
    /\ IdleOut /\ IdleRec /\ IdleRtc
    /\ mgr = EmptyManager
    /\ mgrCalls = <<>>

\* time.time() at the n-th call
Clock == Len(mgrCalls) + 1

ManagerCall(op, session_id, arg, r) ==
    /\ Len(mgrCalls) < MaxManagerCalls
    /\ mgr' = r.m
    /\ mgrCalls' = Append(mgrCalls, [op |-> op, session_id |-> session_id,
                                     arg |-> arg, ret |-> r.ret, sent |-> r.sent,
                                     raised |-> r.raised, at |-> r.at])
    /\ UNCHANGED <<codecVars, ctxVars, flowAVars, flowBVars, dialogVars, srvSent,
                   chunksPut, outVars, recVars, rtcVars>>

M_CreateSession ==
    \E session_id \in ManagerIds, pyaudio_ok \in BOOLEAN :
        ManagerCall("create_session", session_id, pyaudio_ok,
                    create_session(mgr, session_id, pyaudio_ok, Clock))

M_StartSession ==
    \E session_id \in ManagerIds :
        ManagerCall("start_session", session_id, <<>>,
                    start_session(mgr, session_id, Clock))

M_StopSession ==
    \E session_id \in ManagerIds :
        ManagerCall("stop_session", session_id, <<>>, stop_session(mgr, session_id))

M_SendAudio ==
    \E session_id \in ManagerIds :
        ManagerCall("send_audio", session_id, <<>>, send_audio(mgr, session_id, Clock))

M_SendText ==
    \E session_id \in ManagerIds, message_type \in {"ChatTextQuery", "ChatTTSText", "Other"} :
        ManagerCall("send_text", session_id, message_type,
                    send_text(mgr, session_id, message_type, Clock))

M_ProcessAudioFile ==
    \E session_id \in ManagerIds :
        ManagerCall("process_audio_file", session_id, <<>>,
                    process_audio_file(mgr, session_id, Clock))

M_CleanupInactive ==
    \E timeout \in {0, 300} :
        ManagerCall("cleanup_inactive_sessions", "", timeout,
                    cleanup_inactive_sessions(mgr, timeout, Clock))

M_Shutdown ==
    ManagerCall("shutdown", "", <<>>, shutdown(mgr))

NextManager ==
    \/ M_CreateSession \/ M_StartSession \/ M_StopSession \/ M_SendAudio
    \/ M_SendText \/ M_ProcessAudioFile \/ M_CleanupInactive \/ M_Shutdown

SpecManager == InitManager /\ [][NextManager]_vars


\* the key sets of the six maps
KeySets(m) ==
    {m.sessions, m.clients, m.protocol_handlers, m.audio_managers, StateKeys(m),
     ActivityKeys(m)}

\* C35: after any sequence of completed create_session, start_session,
\* stop_session, cleanup_inactive_sessions and shutdown calls the six
\* per-session maps have the same key set, also when a step of a call raised.
C35_SixMapsSameKeys == Cardinality(KeySets(mgr)) = 1

\* a create_session call raised with the id in some of the maps only, and a
\* stop_session and a shutdown call followed
C35_Witness ==
    /\ Len(mgrCalls) = 3
    /\ mgrCalls[1].op = "create_session"
    /\ mgrCalls[1].raised
    /\ Cardinality(KeySets(mgrCalls[1].at)) > 1
    /\ mgrCalls[2].op = "stop_session"
    /\ mgrCalls[3].op = "shutdown"
    /\ Cardinality(KeySets(mgr)) = 1

SendOps == {"send_audio", "send_text", "process_audio_file"}

\* C36: send_audio, send_text and process_audio_file on a session that is
\* unknown or not 'active' return False, send nothing and leave the
\* session's state and last-activity time as they were.
C36_RefusedSendChangesNothing ==
    [][Len(mgrCalls') > Len(mgrCalls) =>
         LET c == mgrCalls'[Len(mgrCalls')] IN
         (c.op \in SendOps /\ Refused(mgr, c.session_id)) =>
             /\ c.ret = "False"
             /\ c.sent = <<>>
             /\ mgr'.session_states[c.session_id] = mgr.session_states[c.session_id]
             /\ mgr'.last_activity[c.session_id] = mgr.last_activity[c.session_id]]_vars

\* each of the three was called for a session the manager does not know
C36_Witness ==
    /\ \A op \in SendOps :
          \E i \in 1..Len(mgrCalls) :
             /\ mgrCalls[i].op = op
             /\ mgrCalls[i].ret = "False"
             /\ mgrCalls[i].session_id \notin mgr.sessions
    /\ StateKeys(mgr) = {}
    /\ ActivityKeys(mgr) = {}


\* C34 speaks of the states a tracked session moves through.  create_session
\* never gets as far as line 115, so no session is ever tracked:
NoTrackedSession == mgr.sessions = {} /\ StateKeys(mgr) = {}

---------------------------------------------------------------------------
(* SpecRecording: vad/manual_recording/vad_handler_manual.py, one           *)
(* ManualRecordingContext and the handle() calls made for it, each run to   *)
(* its end by the caller.                                                   *)

MaxHandleCalls == 3     \* handle() calls in one run

min_recording_duration_ms == 500
max_recording_duration_ms == 30000
InputSampleRate == 16000

\* timestamp[0] of an input, in samples
Timestamps == {0, 1600, 8000, 9600, 483200}

NoStartTime == 0 - 1    \* recording_start_time is None

\* the truth value Python gives a start time: None and 0 are false
Truthy(t) == t # NoStartTime /\ t # 0

\* lines 113-126: the two samples of the n-th input, squeezed, and divided by
\* 32767 unless they are float32 already
AudioOf(inp) ==
    LET sample == [value |-> inp.n, over |-> IF inp.dtype = "float32" THEN 1 ELSE 32767]
    IN  <<sample, sample>>

\* np.concatenate(context.audio_buffer), line 150, is Concat
\* lines 29-38, 61-64
NewRecordingContext(enabled) ==
    [enabled |-> enabled, is_recording |-> FALSE,
     recording_start_time |-> NoStartTime, audio_buffer |-> <<>>, speech_id |-> 0]

\* lines 143-144 and 181-182, in samples: 0 unless the start time and the
\* timestamp are both true
RecordedSamples(c, inp) ==
    IF Truthy(c.recording_start_time) /\ inp.valid
    THEN inp.ts - c.recording_start_time ELSE 0

\* samples / sample_rate * 1000 >= ms
LastsAtLeast(samples, ms) == samples * 1000 >= ms * InputSampleRate

\* samples / sample_rate * 1000 > ms
LastsLongerThan(samples, ms) == samples * 1000 > ms * InputSampleRate

\* lines 130-136
start_branch(c, inp) ==
    [c EXCEPT !.is_recording = TRUE,
              !.recording_start_time = IF inp.valid THEN inp.ts ELSE 0,
              !.audio_buffer = <<>>,
              !.speech_id = @ + 1]

\* the stop branch without line 174
stop_branch_KeepsBuffer(c, inp) ==
    [c |-> [c EXCEPT !.is_recording = FALSE], out |-> <<>>]

\* lines 138-174: the context after a stop signal and what is yielded
stop_branch(c, inp) ==
    IF ~c.is_recording THEN [c |-> c, out |-> <<>>]
    ELSE LET recording_duration == RecordedSamples(c, inp)
             output_chat_data ==
                 [type |-> "HUMAN_AUDIO",
                  audio |-> Concat(c.audio_buffer),
                  speech_id |-> c.speech_id,
                  recorded |-> recording_duration]
         IN  [c |-> [c EXCEPT !.is_recording = FALSE, !.audio_buffer = <<>>],
              out |-> IF /\ LastsAtLeast(recording_duration, min_recording_duration_ms)
                         /\ c.audio_buffer # <<>>
                      THEN <<output_chat_data>> ELSE <<>>]

\* lines 177-186
collect(c, inp) ==
    IF ~c.is_recording THEN c
    ELSE LET buffered == [c EXCEPT !.audio_buffer = Append(@, AudioOf(inp))]
         IN  IF /\ Truthy(c.recording_start_time) /\ inp.valid
                /\ LastsLongerThan(RecordedSamples(c, inp), max_recording_duration_ms)
             THEN [buffered EXCEPT !.is_recording = FALSE, !.audio_buffer = <<>>]
             ELSE buffered

\* handle, lines 101-186
handle(c, inp) ==
    IF ~c.enabled \/ inp.kind # "mic" THEN [c |-> c, out |-> <<>>]
    ELSE LET signalled ==
                 IF inp.signal = "start" THEN [c |-> start_branch(c, inp), out |-> <<>>]
                 ELSE IF inp.signal = "stop" THEN stop_branch(c, inp)
                 ELSE [c |-> c, out |-> <<>>]
         IN  [c |-> collect(signalled.c, inp), out |-> signalled.out]

InitRecording ==
    /\ IdleCodec /\ IdleHandler /\ InitCtx /\ IdleA /\ IdleB /\ IdleDialog
    /\ srvSent = 0 /\ chunksPut = 0
    /\ IdleOut /\ IdleMgr /\ IdleRtc
    /\ \E enabled \in BOOLEAN : rec = NewRecordingContext(enabled)
    /\ recOut = <<>>
    /\ recIn = [n |-> 0, signal |-> "none", ts |-> 0, valid |-> FALSE,
                kind |-> "mic", dtype |-> "float32"]
    /\ recStartTs = NoStartTime

\* one handle() call; the timestamps of a stream do not go back
R_Handle ==
    /\ recIn.n < MaxHandleCalls
    /\ \E signal \in {"start", "stop", "none"}, ts \in Timestamps, valid \in BOOLEAN,
          kind \in {"mic", "other", "no_audio"}, dtype \in {"float32", "int16"} :
          LET inp == [n |-> recIn.n + 1, signal |-> signal,
                      ts |-> IF valid THEN ts ELSE recIn.ts, valid |-> valid,
                      kind |-> kind, dtype |-> dtype]
              r == handle(rec, inp)
          IN  /\ ts >= recIn.ts
              /\ rec' = r.c
              /\ recOut' = recOut \o r.out
              /\ recIn' = inp
              /\ recStartTs' = IF rec.enabled /\ kind = "mic" /\ signal = "start"
                               THEN (IF valid THEN ts ELSE NoStartTime)
                               ELSE recStartTs
    /\ UNCHANGED <<codecVars, ctxVars, flowAVars, flowBVars, dialogVars, srvSent,
                   chunksPut, outVars, mgrVars, rtcVars>>

NextRecording == R_Handle

SpecRecording == InitRecording /\ [][NextRecording]_vars

\* the call just made handled a stop signal
StopHandled ==
    /\ recIn'.n = recIn.n + 1
    /\ rec.enabled /\ recIn'.kind = "mic" /\ recIn'.signal = "stop"

\* C37 (as claimed): a stop signal that ends a recording which has lasted at
\* least min_recording_duration_ms and has buffered a chunk yields exactly one
\* HUMAN_AUDIO output, the buffered chunks concatenated in arrival order,
\* whatever timestamp the recording started at.
C37_StopYieldsRecording ==
    [][(/\ StopHandled
        /\ rec.is_recording
        /\ recStartTs # NoStartTime /\ recIn'.valid
        /\ LastsAtLeast(recIn'.ts - recStartTs, min_recording_duration_ms)
        /\ rec.audio_buffer # <<>>)
       => /\ Len(recOut') = Len(recOut) + 1
          /\ recOut'[Len(recOut')].type = "HUMAN_AUDIO"
          /\ recOut'[Len(recOut')].audio = Concat(rec.audio_buffer)]_vars

---------------------------------------------------------------------------
(* SpecRtc: service/rtc_service/rtc_stream_v2.py, the RtcStreamV2 that      *)
(* fastrtc uses as the factory and the streams its copy() makes.            *)

MaxRtcCalls == 4        \* copy() and close() calls in one run

WebrtcIds == {"a", "b"}     \* the webrtc_id a caller passes
UuidIds == {"u1", "u2"}     \* what uuid.uuid4().hex gives, never twice
NoStream == 0               \* the id is not a key of the dict

\* __init__, lines 28-67: a stream has its own, empty streams dict and quit
\* event
NewStream(session_id) ==
    [session_id |-> session_id, quit |-> FALSE,
     streams |-> [k \in WebrtcIds \cup UuidIds |-> NoStream]]

\* the factory: streams is its dict (session id -> the stream made, by its
\* position in made), delegate: client_handler_delegate is set
NewFactory(delegate) ==
    [delegate |-> delegate,
     streams |-> [k \in WebrtcIds \cup UuidIds |-> NoStream],
     made |-> <<>>, uuids |-> {}, raised |-> 0, calls |-> 0]

\* copy, lines 70-99; the stream is built and the session started before the
\* test for the id, and every exception is raised on to the caller
copy(f, session_id) ==
    IF ~f.delegate \/ f.streams[session_id] # NoStream
    THEN [f EXCEPT !.raised = @ + 1]
    ELSE [f EXCEPT !.made = Append(@, NewStream(session_id)),
                   !.streams[session_id] = Len(f.made) + 1]

\* close, lines 245-265, of one made stream: self is the stream, so
\* self.streams is the stream's own dict, not the factory's
close(s) ==
    [s EXCEPT !.quit = TRUE, !.streams[s.session_id] = NoStream]

InitRtc ==
    /\ IdleCodec /\ IdleHandler /\ InitCtx /\ IdleA /\ IdleB /\ IdleDialog
    /\ srvSent = 0 /\ chunksPut = 0
    /\ IdleOut /\ IdleMgr /\ IdleRec
    /\ \E delegate \in BOOLEAN : rtc = NewFactory(delegate)

RtcIdle ==
    UNCHANGED <<codecVars, ctxVars, flowAVars, flowBVars, dialogVars, srvSent,
                chunksPut, outVars, mgrVars, recVars>>

\* fastrtc calls copy(webrtc_id = ...) for a new connection
Rtc_Copy ==
    /\ rtc.calls < MaxRtcCalls
    /\ \E session_id \in WebrtcIds :
          rtc' = [copy(rtc, session_id) EXCEPT !.calls = @ + 1]
    /\ RtcIdle

\* copy() without a webrtc_id: the id is a new uuid (lines 75-76)
Rtc_CopyUuid ==
    /\ rtc.calls < MaxRtcCalls
    /\ \E session_id \in UuidIds \ rtc.uuids :
          rtc' = [copy(rtc, session_id) EXCEPT !.calls = @ + 1,
                                               !.uuids = @ \cup {session_id}]
    /\ RtcIdle

\* fastrtc closes a stream copy() made
Rtc_Close ==
    /\ rtc.calls < MaxRtcCalls
    /\ \E i \in 1..Len(rtc.made) :
          rtc' = [rtc EXCEPT !.made[i] = close(@), !.calls = @ + 1]
    /\ RtcIdle

NextRtc == Rtc_Copy \/ Rtc_CopyUuid \/ Rtc_Close

SpecRtc == InitRtc /\ [][NextRtc]_vars

\* C39 (as claimed): once a stream made by copy() has been closed its session
\* id is no key of the factory's streams map: the map holds no closed stream
\* (so a later copy() with that id finds the id free).
C39_ClosedStreamLeavesTheMap ==
    \A k \in WebrtcIds \cup UuidIds :
        rtc.streams[k] # NoStream => ~rtc.made[rtc.streams[k]].quit

====
